---- MODULE Spec2Model ----
(***************************************************************************)
(* A model of vt102: the control-sequence parser (vt102/streams.py,        *)
(* class Stream) and the screen it drives (vt102/screens.py, class         *)
(* Screen).  Python sequences are 0-indexed; the model keeps the 0-based   *)
(* indices of the source and converts at the point of access.             *)
(***************************************************************************)
EXTENDS Integers, Sequences, FiniteSets, TLC

VARIABLES
    state,      \* Stream.state: "stream" | "escape" | "arguments" | "sharp"
    params,     \* Stream.params: the integers parsed so far
    current,    \* Stream.current: the digits of the parameter being read
    flags,      \* Stream.flags: the set of keyword flags ({} or {"private"})
    listeners,  \* Stream.listeners: the callbacks connected to every event
    scr,        \* the Screen object (a record of its attributes)
    fed,        \* history: the code points consumed since construction
    calls,      \* history: the listener calls entered since construction
    exc,        \* the exception the last call let escape ("" when none)
    nops,       \* history: the number of direct Screen calls made
    last        \* history: the operation performed by the last step

vars ==
    <<state, params, current, flags, listeners, scr, fed, calls, exc, nops,
      last>>

(***************************************************************************)
(* Bounds of the model.                                                    *)
(***************************************************************************)
MaxFeed == 4        \* code points fed after the initial prefix
MaxOps == 2         \* direct Screen operations in one behaviour
MaxLines == 3       \* height of a constructed Screen
MaxColumns == 3     \* width of a constructed Screen
MaxTable == 2       \* code points fed when the tables are exercised
MaxDraw == 4        \* calls in one behaviour of typing on a Screen
MaxScroll == 3      \* calls in one behaviour of scrolling a Screen
MaxSave == 3        \* calls in one behaviour of saving and restoring
MaxMove == 2        \* calls in one behaviour of positioning the cursor
MaxRegion == 3      \* code points fed to a Screen with selected margins
MaxWidth == 3       \* calls in one behaviour of switching the column mode
MaxErase == 2       \* calls in one behaviour of erasing the display
MaxTab == 4         \* calls in one behaviour of tabulation
MaxTabColumns == 24 \* columns of a Screen tabulated on
MaxResize == 2      \* calls in one behaviour of resizing
MaxStyle == 3       \* calls in one behaviour of selecting the rendition
MaxHorizontal == 4  \* calls in one behaviour of moving along the line

(***************************************************************************)
(* vt102/control.py, vt102/escape.py, vt102/modes.py                       *)
(***************************************************************************)
NUL == "NUL"
BEL == "BEL"
BS  == "BS"
HT  == "HT"
LF  == "LF"
VT  == "VT"
FF  == "FF"
CR  == "CR"
SO  == "SO"
SI  == "SI"
CAN == "CAN"
SUB == "SUB"
ESC == "ESC"
DEL == "DEL"
CSI == "CSI"

LNM == 20
IRM == 4
DECTCEM == 25
DECCKM == 1
DECOM == 6
DECAWM == 7
DECCOLM == 3

\* Parameters greater than 9999 are set to 9999 (Stream._arguments).
MaxParam == 9999

Min(a, b) == IF a < b THEN a ELSE b
Max(a, b) == IF a > b THEN a ELSE b

(***************************************************************************)
(* Python's unicode.isdigit() and int().  The ASCII digits are decimal;    *)
(* SUP2 stands for U+00B2 (superscript two), for which isdigit() is true   *)
(* while int() raises ValueError.                                          *)
(***************************************************************************)
DecimalDigits == {"0", "1", "2", "3", "4", "5", "6", "7", "8", "9"}
OtherDigits == {"SUP2"}

isdigit(char) == char \in DecimalDigits \cup OtherDigits

DigitValue(char) ==
    CASE char = "0" -> 0 [] char = "1" -> 1 [] char = "2" -> 2
      [] char = "3" -> 3 [] char = "4" -> 4 [] char = "5" -> 5
      [] char = "6" -> 6 [] char = "7" -> 7 [] char = "8" -> 8
      [] char = "9" -> 9

\* int(s) is defined when every character of s is a decimal digit.
IntDefined(s) == \A i \in 1..Len(s) : s[i] \in DecimalDigits

RECURSIVE int(_)
int(s) ==
    IF Len(s) = 0 THEN 0
    ELSE 10 * int(SubSeq(s, 1, Len(s) - 1)) + DigitValue(s[Len(s)])

\* unicode(n) for n >= 0: the decimal digits of n, most significant first.
RECURSIVE unicode(_)
unicode(n) ==
    LET d == <<"0", "1", "2", "3", "4", "5", "6", "7", "8", "9">>[(n % 10) + 1]
    IN  IF n < 10 THEN <<d>> ELSE Append(unicode(n \div 10), d)

\* u";".join(map(unicode, ps))
RECURSIVE join(_)
join(ps) ==
    IF Len(ps) = 0 THEN <<>>
    ELSE IF Len(ps) = 1 THEN unicode(ps[1])
    ELSE join(SubSeq(ps, 1, Len(ps) - 1)) \o <<";">> \o unicode(ps[Len(ps)])

(***************************************************************************)
(* Stream's dispatch tables.                                               *)
(***************************************************************************)
basic ==
    (BEL :> "bell") @@ (BS :> "backspace") @@ (HT :> "tab")
    @@ (LF :> "linefeed") @@ (VT :> "linefeed") @@ (FF :> "linefeed")
    @@ (CR :> "carriage-return") @@ (SO :> "shift-out") @@ (SI :> "shift-in")

escape ==
    ("c" :> "reset") @@ ("D" :> "index") @@ ("E" :> "linefeed")
    @@ ("M" :> "reverse-index") @@ ("H" :> "set-tab-stop")
    @@ ("7" :> "save-cursor") @@ ("8" :> "restore-cursor")

sharp == ("8" :> "alignment-display")

csi ==
    ("@" :> "insert-characters") @@ ("A" :> "cursor-up")
    @@ ("B" :> "cursor-down") @@ ("C" :> "cursor-forward")
    @@ ("D" :> "cursor-back") @@ ("E" :> "cursor-down1")
    @@ ("F" :> "cursor-up1") @@ ("G" :> "cursor-to-column")
    @@ ("H" :> "cursor-position") @@ ("J" :> "erase-in-display")
    @@ ("K" :> "erase-in-line") @@ ("L" :> "insert-lines")
    @@ ("M" :> "delete-lines") @@ ("P" :> "delete-characters")
    @@ ("X" :> "erase-characters") @@ ("a" :> "cursor-forward")
    @@ ("d" :> "cursor-to-line") @@ ("e" :> "cursor-down")
    @@ ("f" :> "cursor-position") @@ ("g" :> "clear-tab-stop")
    @@ ("h" :> "set-mode") @@ ("l" :> "reset-mode")
    @@ ("m" :> "select-graphic-rendition") @@ ("r" :> "set-margins")
    @@ ("'" :> "cursor-to-column")

(***************************************************************************)
(* Python list / array operations on 0-based indices.  A negative index    *)
(* counts from the end; an index outside the sequence raises IndexError    *)
(* on access, and is clamped by insert and by slices.                      *)
(***************************************************************************)
IdxOK(seq, i) == i >= 0 - Len(seq) /\ i < Len(seq)
Pos(seq, i) == IF i < 0 THEN i + Len(seq) + 1 ELSE i + 1

\* seq[:n]
SliceTo(seq, n) ==
    IF n >= 0 THEN SubSeq(seq, 1, Min(n, Len(seq)))
    ELSE SubSeq(seq, 1, Max(0, Len(seq) + n))

\* seq[n:] for n >= 0
SliceFrom(seq, n) == SubSeq(seq, Min(n, Len(seq)) + 1, Len(seq))

\* seq.insert(i, v)
ListInsert(seq, i, v) ==
    LET j == IF i < 0 THEN Max(0, i + Len(seq)) ELSE Min(i, Len(seq))
    IN  SubSeq(seq, 1, j) \o <<v>> \o SubSeq(seq, j + 1, Len(seq))

\* seq.pop(i), for an index IdxOK accepts
ListPop(seq, i) ==
    LET j == Pos(seq, i)
    IN  SubSeq(seq, 1, j - 1) \o SubSeq(seq, j + 1, Len(seq))

\* [v] * n, and u" " * n: empty when n <= 0
Repeat(v, n) == [i \in 1..n |-> v]
Blank(n) == Repeat(" ", n)

\* m[r][c] = v is possible
MatOK(m, r, c) == IdxOK(m, r) /\ IdxOK(m[Pos(m, r)], c)
MatSet(m, r, c, v) ==
    LET row == m[Pos(m, r)]
    IN  [m EXCEPT ![Pos(m, r)] = [row EXCEPT ![Pos(row, c)] = v]]

(***************************************************************************)
(* Character attributes (screens.Attributes, vt102/graphics.py).  A tuple  *)
(* is a sequence of elements; an element is a string, or the tuple of flag *)
(* names built from a set (whose order Python does not define, so it is    *)
(* kept as the set).                                                       *)
(***************************************************************************)
Str(s) == [k |-> "str", v |-> {s}]
Tup(S) == [k |-> "tuple", v |-> S]

default_attributes == <<Tup({}), Str("default"), Str("default")>>

TEXT ==
    (0 :> "reset") @@ (1 :> "bold") @@ (2 :> "dim") @@ (4 :> "underline")
    @@ (5 :> "blink") @@ (7 :> "reverse") @@ (24 :> "underline-off")
    @@ (25 :> "blink-off") @@ (27 :> "reverse-off")

FOREGROUND ==
    (30 :> "black") @@ (31 :> "red") @@ (32 :> "green") @@ (33 :> "brown")
    @@ (34 :> "blue") @@ (35 :> "magenta") @@ (36 :> "cyan")
    @@ (37 :> "white") @@ (39 :> "default") @@ (38 :> "default")

BACKGROUND ==
    (40 :> "black") @@ (41 :> "red") @@ (42 :> "green") @@ (43 :> "brown")
    @@ (44 :> "blue") @@ (45 :> "magenta") @@ (46 :> "cyan")
    @@ (47 :> "white") @@ (49 :> "default")

\* set(s) for a string s: its characters.
CharsOf(s) ==
    CASE s = "default" -> {"d", "e", "f", "a", "u", "l", "t"}
      [] s = "black" -> {"b", "l", "a", "c", "k"}
      [] s = "red" -> {"r", "e", "d"}
      [] s = "green" -> {"g", "r", "e", "n"}
      [] s = "brown" -> {"b", "r", "o", "w", "n"}
      [] s = "blue" -> {"b", "l", "u", "e"}
      [] s = "magenta" -> {"m", "a", "g", "e", "n", "t"}
      [] s = "cyan" -> {"c", "y", "a", "n"}
      [] s = "white" -> {"w", "h", "i", "t", "e"}
      [] s = "bold" -> {"b", "o", "l", "d"}
      [] s = "dim" -> {"d", "i", "m"}
      [] s = "underline" -> {"u", "n", "d", "e", "r", "l", "i"}
      [] s = "blink" -> {"b", "l", "i", "n", "k"}
      [] s = "reverse" -> {"r", "e", "v", "s"}
      [] OTHER -> {s}

\* set(e) for a tuple element e
SetOf(e) == IF e.k = "tuple" THEN e.v ELSE CharsOf(CHOOSE s \in e.v : TRUE)

\* tuple(S): the members of S as string elements, in one fixed order
RECURSIVE TupleOf(_)
TupleOf(S) ==
    IF S = {} THEN <<>>
    ELSE LET s == CHOOSE m \in S : TRUE
         IN  <<Str(s)>> \o TupleOf(S \ {s})

(***************************************************************************)
(* screens.Screen.  An operation maps the Screen record to the Screen      *)
(* record it leaves; `raised` names the exception that ended it, with the  *)
(* fields as they were when it was raised.                                 *)
(***************************************************************************)
Ok(s) == s.raised = ""
Raise(s, e) == [s EXCEPT !.raised = e]

\* resize that takes lines off the bottom.
resize_clips_bottom(s, lines_, columns_) ==
    LET lines == IF lines_ = 0 THEN s.lines ELSE lines_
        columns == IF columns_ = 0 THEN s.columns ELSE columns_
        d1 == IF s.lines < lines
              THEN s.display \o Repeat(Blank(s.columns), lines - s.lines)
              ELSE IF s.lines > lines
              THEN SliceTo(s.display, lines)
              ELSE s.display
        a1 == IF s.lines < lines
              THEN s.attributes
                   \o Repeat(Repeat(default_attributes, s.columns),
                             lines - s.lines)
              ELSE IF s.lines > lines
              THEN SliceTo(s.attributes, lines)
              ELSE s.attributes
        d2 == IF s.columns < columns
              THEN [i \in 1..Len(d1) |->
                       d1[i] \o Blank(columns - s.columns)]
              ELSE IF s.columns > columns
              THEN [i \in 1..Len(d1) |->
                       SliceTo(d1[i], columns - s.columns)]
              ELSE d1
        a2 == IF s.columns < columns
              THEN [i \in 1..Len(a1) |->
                       a1[i] \o Repeat(default_attributes,
                                       columns - s.columns)]
              ELSE IF s.columns > columns
              THEN [i \in 1..Len(a1) |->
                       SliceTo(a1[i], columns - s.columns)]
              ELSE a1
    IN  [s EXCEPT !.display = d2, !.attributes = a2,
                  !.lines = lines, !.columns = columns]

resize(s, lines_, columns_) ==
    LET lines == IF lines_ = 0 THEN s.lines ELSE lines_
        columns == IF columns_ = 0 THEN s.columns ELSE columns_
        d1 == IF s.lines < lines
              THEN s.display \o Repeat(Blank(s.columns), lines - s.lines)
              ELSE IF s.lines > lines
              THEN SliceFrom(s.display, s.lines - lines)
              ELSE s.display
        a1 == IF s.lines < lines
              THEN s.attributes
                   \o Repeat(Repeat(default_attributes, s.columns),
                             lines - s.lines)
              ELSE IF s.lines > lines
              THEN SliceFrom(s.attributes, s.lines - lines)
              ELSE s.attributes
        d2 == IF s.columns < columns
              THEN [i \in 1..Len(d1) |->
                       d1[i] \o Blank(columns - s.columns)]
              ELSE IF s.columns > columns
              THEN [i \in 1..Len(d1) |->
                       SliceTo(d1[i], columns - s.columns)]
              ELSE d1
        a2 == IF s.columns < columns
              THEN [i \in 1..Len(a1) |->
                       a1[i] \o Repeat(default_attributes,
                                       columns - s.columns)]
              ELSE IF s.columns > columns
              THEN [i \in 1..Len(a1) |->
                       SliceTo(a1[i], columns - s.columns)]
              ELSE a1
    IN  [s EXCEPT !.display = d2, !.attributes = a2,
                  !.lines = lines, !.columns = columns]

ensure_bounds(s, use_margins) ==
    LET top == IF use_margins \/ DECOM \in s.mode
               THEN s.margins.top ELSE 0
        bottom == IF use_margins \/ DECOM \in s.mode
                  THEN s.margins.bottom ELSE s.lines - 1
    IN  [s EXCEPT !.x = Min(Max(0, s.x), s.columns - 1),
                  !.y = Min(Max(top, s.y), bottom)]

\* The parameters of the cursor operations are 0 when absent: the code
\* reads each as `count or 1`.
cursor_up(s, count) ==
    ensure_bounds([s EXCEPT !.y = @ - (IF count = 0 THEN 1 ELSE count)], TRUE)

carriage_return(s) == [s EXCEPT !.x = 0]

cursor_up1(s, count) == carriage_return(cursor_up(s, count))

cursor_down(s, count) ==
    ensure_bounds([s EXCEPT !.y = @ + (IF count = 0 THEN 1 ELSE count)], TRUE)

cursor_down1(s, count) == carriage_return(cursor_down(s, count))

cursor_back(s, count) ==
    ensure_bounds([s EXCEPT !.x = @ - (IF count = 0 THEN 1 ELSE count)], FALSE)

cursor_forward(s, count) ==
    ensure_bounds([s EXCEPT !.x = @ + (IF count = 0 THEN 1 ELSE count)], FALSE)

\* cursor_position that clamps a request outside the margins instead of
\* ignoring it.
cursor_position_clamps(s, line_, column_) ==
    LET column == (IF column_ = 0 THEN 1 ELSE column_) - 1
        line0 == (IF line_ = 0 THEN 1 ELSE line_) - 1
        line == IF DECOM \in s.mode THEN line0 + s.margins.top ELSE line0
    IN  ensure_bounds([s EXCEPT !.x = column, !.y = line], FALSE)

cursor_position(s, line_, column_) ==
    LET column == (IF column_ = 0 THEN 1 ELSE column_) - 1
        line0 == (IF line_ = 0 THEN 1 ELSE line_) - 1
        line == IF DECOM \in s.mode THEN line0 + s.margins.top ELSE line0
    IN  IF DECOM \in s.mode
           /\ ~(s.margins.top <= line /\ line <= s.margins.bottom)
        THEN s
        ELSE ensure_bounds([s EXCEPT !.x = column, !.y = line], FALSE)

cursor_to_column(s, column) ==
    ensure_bounds([s EXCEPT !.x = (IF column = 0 THEN 1 ELSE column) - 1],
                  FALSE)

cursor_to_line(s, line) ==
    LET y0 == (IF line = 0 THEN 1 ELSE line) - 1
        y1 == IF DECOM \in s.mode THEN y0 + s.margins.top ELSE y0
    IN  ensure_bounds([s EXCEPT !.y = y1], FALSE)

backspace(s) == cursor_back(s, 0)

\* index that drops the row of the bottom margin instead of the top one.
index_drops_bottom(s) ==
    LET bottom == s.margins.bottom
    IN  IF s.y = bottom
        THEN IF ~IdxOK(s.display, bottom) THEN Raise(s, "IndexError")
             ELSE [s EXCEPT !.display =
                      ListInsert(ListPop(s.display, bottom), bottom,
                                 Blank(s.columns))]
        ELSE cursor_down(s, 0)

index(s) ==
    LET top == s.margins.top
        bottom == s.margins.bottom
    IN  IF s.y = bottom
        THEN IF ~IdxOK(s.display, top) THEN Raise(s, "IndexError")
             ELSE [s EXCEPT !.display =
                      ListInsert(ListPop(s.display, top), bottom,
                                 Blank(s.columns))]
        ELSE cursor_down(s, 0)

reverse_index(s) ==
    LET top == s.margins.top
        bottom == s.margins.bottom
    IN  IF s.y = top
        THEN IF ~IdxOK(s.display, bottom) THEN Raise(s, "IndexError")
             ELSE [s EXCEPT !.display =
                      ListInsert(ListPop(s.display, bottom), top,
                                 Blank(s.columns))]
        ELSE cursor_up(s, 0)

linefeed(s) ==
    LET newline(a) ==
            IF Ok(a) /\ LNM \in a.mode THEN carriage_return(a) ELSE a
    IN  newline(index(s))

\* tab that moves to the last tab stop right of the cursor.
tab_last_stop(s) ==
    LET stops == {stop \in s.tabstops : s.x < stop}
        column == IF stops # {}
                  THEN CHOOSE stop \in stops : \A o \in stops : stop >= o
                  ELSE s.columns - 1
    IN  [s EXCEPT !.x = column]

tab(s) ==
    LET stops == {stop \in s.tabstops : s.x < stop}
        column == IF stops # {}
                  THEN CHOOSE stop \in stops : \A o \in stops : stop <= o
                  ELSE s.columns - 1
    IN  [s EXCEPT !.x = column]

\* One pass of the loop of insert_lines, for line = from .. to - 1.
RECURSIVE insert_lines_loop(_, _, _)
insert_lines_loop(s, from, to) ==
    IF from >= to THEN s
    ELSE IF ~IdxOK(s.display, s.margins.bottom) THEN Raise(s, "IndexError")
    ELSE insert_lines_loop(
             [s EXCEPT !.display =
                 ListInsert(ListPop(s.display, s.margins.bottom), from,
                            Blank(s.columns))],
             from + 1, to)

\* insert_lines that leaves the cursor in its column.
insert_lines_keeps_column(s, count_) ==
    LET count == IF count_ = 0 THEN 1 ELSE count_
        top == s.margins.top
        bottom == s.margins.bottom
    IN  IF top <= s.y /\ s.y <= bottom
        THEN insert_lines_loop(s, s.y, Min(bottom + 1, s.y + count))
        ELSE s

insert_lines(s, count_) ==
    LET count == IF count_ = 0 THEN 1 ELSE count_
        top == s.margins.top
        bottom == s.margins.bottom
    IN  IF top <= s.y /\ s.y <= bottom
        THEN LET home(a) == IF Ok(a) THEN [a EXCEPT !.x = 0] ELSE a
             IN  home(insert_lines_loop(s, s.y,
                                        Min(bottom + 1, s.y + count)))
        ELSE s

RECURSIVE delete_lines_loop(_, _)
delete_lines_loop(s, n) ==
    IF n <= 0 THEN s
    ELSE IF ~IdxOK(s.display, s.y) THEN Raise(s, "IndexError")
    ELSE delete_lines_loop(
             [s EXCEPT !.display =
                 ListInsert(ListPop(s.display, s.y), s.margins.bottom,
                            Blank(s.columns))],
             n - 1)

\* delete_lines without the test that the cursor is inside the margins.
delete_lines_anywhere(s, count_) ==
    LET count == IF count_ = 0 THEN 1 ELSE count_
        home(a) == IF Ok(a) THEN [a EXCEPT !.x = 0] ELSE a
    IN  home(delete_lines_loop(s, Min(s.margins.bottom - s.y + 1, count)))

delete_lines(s, count_) ==
    LET count == IF count_ = 0 THEN 1 ELSE count_
        top == s.margins.top
        bottom == s.margins.bottom
    IN  IF top <= s.y /\ s.y <= bottom
        THEN LET home(a) == IF Ok(a) THEN [a EXCEPT !.x = 0] ELSE a
             IN  home(delete_lines_loop(s, Min(bottom - s.y + 1, count)))
        ELSE s

\* One pass of the loop of insert_characters: insert a blank at x, drop the
\* last cell, reset the attributes of cell x.
insert_characters_step(s) ==
    IF ~IdxOK(s.display, s.y) THEN Raise(s, "IndexError")
    ELSE LET r == Pos(s.display, s.y)
             pop(row) == SubSeq(row, 1, Len(row) - 1)
             plain(a) ==
                 IF ~MatOK(a.attributes, a.y, a.x) THEN Raise(a, "IndexError")
                 ELSE [a EXCEPT !.attributes =
                          MatSet(a.attributes, a.y, a.x, default_attributes)]
         IN  plain([s EXCEPT !.display[r] =
                       pop(ListInsert(s.display[r], s.x, " "))])

\* n passes in sequence, ended by the first that raises (the passes are
\* grouped in halves to keep the evaluation shallow).
RECURSIVE insert_characters_loop(_, _)
insert_characters_loop(s, n) ==
    IF n <= 0 THEN s
    ELSE IF n = 1 THEN insert_characters_step(s)
    ELSE LET rest(a) ==
                 IF Ok(a) THEN insert_characters_loop(a, n - (n \div 2))
                 ELSE a
         IN  rest(insert_characters_loop(s, n \div 2))

insert_characters(s, count_) ==
    LET count == IF count_ = 0 THEN 1 ELSE count_
    IN  insert_characters_loop(s, Min(s.columns - s.y, count))

\* One pass of the loop of delete_characters.
delete_characters_step(s) ==
    IF ~MatOK(s.display, s.y, s.x) THEN Raise(s, "IndexError")
    ELSE LET r == Pos(s.display, s.y)
             plain(a) ==
                 IF ~MatOK(a.attributes, a.y, a.x) THEN Raise(a, "IndexError")
                 ELSE LET q == Pos(a.attributes, a.y)
                      IN  [a EXCEPT !.attributes[q] =
                              Append(ListPop(a.attributes[q], a.x),
                                     default_attributes)]
         IN  plain([s EXCEPT !.display[r] =
                       Append(ListPop(s.display[r], s.x), " ")])

RECURSIVE delete_characters_loop(_, _)
delete_characters_loop(s, n) ==
    IF n <= 0 THEN s
    ELSE IF n = 1 THEN delete_characters_step(s)
    ELSE LET rest(a) ==
                 IF Ok(a) THEN delete_characters_loop(a, n - (n \div 2))
                 ELSE a
         IN  rest(delete_characters_loop(s, n \div 2))

delete_characters(s, count_) ==
    LET count == IF count_ = 0 THEN 1 ELSE count_
    IN  delete_characters_loop(s, Min(s.columns - s.x, count))

\* One pass of the loop of erase_characters.
erase_characters_step(s, column) ==
    IF ~MatOK(s.display, s.y, column) THEN Raise(s, "IndexError")
    ELSE LET plain(a) ==
                 IF ~MatOK(a.attributes, a.y, column)
                 THEN Raise(a, "IndexError")
                 ELSE [a EXCEPT !.attributes =
                          MatSet(a.attributes, a.y, column,
                                 default_attributes)]
         IN  plain([s EXCEPT !.display = MatSet(s.display, s.y, column, " ")])

\* The loop of erase_characters, for column = from .. to - 1.
RECURSIVE erase_characters_loop(_, _, _)
erase_characters_loop(s, from, to) ==
    IF from >= to THEN s
    ELSE IF to = from + 1 THEN erase_characters_step(s, from)
    ELSE LET mid == from + ((to - from) \div 2)
             rest(a) ==
                 IF Ok(a) THEN erase_characters_loop(a, mid, to) ELSE a
         IN  rest(erase_characters_loop(s, from, mid))

erase_characters(s, count_) ==
    LET count == IF count_ = 0 THEN 1 ELSE count_
    IN  erase_characters_loop(s, s.x, Min(s.x + count, s.columns))

erase_in_line(s, type_of) ==
    IF ~IdxOK(s.display, s.y) \/ ~IdxOK(s.attributes, s.y)
    THEN Raise(s, "IndexError")
    ELSE LET r == Pos(s.display, s.y)
             q == Pos(s.attributes, s.y)
             line == s.display[r]
             attrs == s.attributes[q]
         IN  IF type_of = 0
             THEN LET count == s.columns - s.x
                  IN  [s EXCEPT
                         !.display[r] = SliceTo(line, s.x) \o Blank(count),
                         !.attributes[q] =
                             SliceTo(attrs, s.x)
                             \o Repeat(default_attributes, count)]
             ELSE IF type_of = 1
             THEN LET count == s.x + 1
                  IN  [s EXCEPT
                         !.display[r] = Blank(count) \o SliceFrom(line, count),
                         !.attributes[q] =
                             Repeat(default_attributes, count)
                             \o SliceFrom(attrs, count)]
             ELSE IF type_of = 2
             THEN [s EXCEPT
                     !.display[r] = Blank(s.columns),
                     !.attributes[q] = Repeat(default_attributes, s.columns)]
             ELSE s

\* The loop of erase_in_display, for line = from .. to - 1.
RECURSIVE erase_in_display_loop(_, _, _)
erase_in_display_loop(s, from, to) ==
    IF from >= to THEN s
    ELSE IF ~IdxOK(s.display, from) THEN Raise(s, "IndexError")
    ELSE LET plain(a) ==
                 IF ~IdxOK(a.attributes, from) THEN Raise(a, "IndexError")
                 ELSE erase_in_display_loop(
                          [a EXCEPT !.attributes[Pos(a.attributes, from)] =
                              Repeat(default_attributes, a.columns)],
                          from + 1, to)
         IN  plain([s EXCEPT !.display[Pos(s.display, from)] =
                       Blank(s.columns)])

\* erase_in_display that leaves the line of the cursor alone.
erase_in_display_other_lines(s, type_of) ==
    IF type_of > 2 THEN Raise(s, "IndexError")
    ELSE LET from == IF type_of = 0 THEN s.y + 1 ELSE 0
             to == IF type_of = 1 THEN s.y ELSE s.lines
         IN  erase_in_display_loop(s, from, to)

\* interval = (from y + 1, to y, everything)[type_of]: a tuple of three.
erase_in_display(s, type_of) ==
    IF type_of > 2 THEN Raise(s, "IndexError")
    ELSE LET from == IF type_of = 0 THEN s.y + 1 ELSE 0
             to == IF type_of = 1 THEN s.y ELSE s.lines
             cursor_line(a) ==
                 IF Ok(a) /\ type_of \in {0, 1}
                 THEN erase_in_line(a, type_of) ELSE a
         IN  cursor_line(erase_in_display_loop(s, from, to))

set_tab_stop(s) == [s EXCEPT !.tabstops = @ \cup {s.x}]

clear_tab_stop(s, type_of) ==
    IF type_of = 0 THEN [s EXCEPT !.tabstops = @ \ {s.x}]
    ELSE IF type_of = 3 THEN [s EXCEPT !.tabstops = {}]
    ELSE s

\* set_margins that adopts a region of one line.
set_margins_one_line(s, args) ==
    IF Len(args) < 2 THEN s
    ELSE LET top == Max(0, Min(args[1] - 1, s.lines - 1))
             bottom == Max(0, Min(args[2] - 1, s.lines - 1))
         IN  IF bottom - top >= 0
             THEN cursor_position(
                      [s EXCEPT !.margins = [top |-> top, bottom |-> bottom]],
                      0, 0)
             ELSE s

\* set_margins(*args): top and bottom are None when absent.
set_margins(s, args) ==
    IF Len(args) < 2 THEN s
    ELSE LET top == Max(0, Min(args[1] - 1, s.lines - 1))
             bottom == Max(0, Min(args[2] - 1, s.lines - 1))
         IN  IF bottom - top >= 1
             THEN cursor_position(
                      [s EXCEPT !.margins = [top |-> top, bottom |-> bottom]],
                      0, 0)
             ELSE s

\* The tail of set_mode and reset_mode without the erasure of the display.
mode_effects_keeps_display(s, modes, columns) ==
    LET home(a) == IF Ok(a) THEN cursor_position(a, 0, 0) ELSE a
        column_mode(a) ==
            IF DECCOLM \in modes THEN home(resize(a, 0, columns)) ELSE a
        origin_mode(a) ==
            IF Ok(a) /\ DECOM \in modes THEN cursor_position(a, 0, 0)
            ELSE a
    IN  origin_mode(column_mode(s))

\* The tail shared by set_mode and reset_mode, once self.mode is updated.
mode_effects(s, modes, columns) ==
    LET home(a) == IF Ok(a) THEN cursor_position(a, 0, 0) ELSE a
        column_mode(a) ==
            IF DECCOLM \in modes
            THEN home(erase_in_display(resize(a, 0, columns), 2))
            ELSE a
        origin_mode(a) ==
            IF Ok(a) /\ DECOM \in modes THEN cursor_position(a, 0, 0)
            ELSE a
    IN  origin_mode(column_mode(s))

\* modes: the set of the positional arguments
set_mode(s, modes) ==
    mode_effects([s EXCEPT !.mode = @ \cup modes], modes, 132)

reset_mode(s, modes) ==
    mode_effects([s EXCEPT !.mode = @ \ modes], modes, 80)

save_cursor(s) ==
    [s EXCEPT !.savepoints =
        Append(@, [cursor |-> <<s.x, s.y>>,
                   origin |-> DECOM \in s.mode,
                   wrap |-> DECAWM \in s.mode])]

\* restore_cursor that leaves DECOM alone when nothing was saved.
restore_cursor_keeps_origin(s) ==
    IF Len(s.savepoints) > 0
    THEN LET savepoint == s.savepoints[Len(s.savepoints)]
             origin(a) ==
                 IF savepoint.origin THEN set_mode(a, {DECOM}) ELSE a
             wrap(a) ==
                 IF Ok(a) /\ savepoint.wrap THEN set_mode(a, {DECAWM})
                 ELSE a
         IN  wrap(origin([s EXCEPT
                             !.savepoints = SubSeq(@, 1, Len(@) - 1),
                             !.x = savepoint.cursor[1],
                             !.y = savepoint.cursor[2]]))
    ELSE cursor_position(s, 0, 0)

restore_cursor(s) ==
    IF Len(s.savepoints) > 0
    THEN LET savepoint == s.savepoints[Len(s.savepoints)]
             origin(a) ==
                 IF savepoint.origin THEN set_mode(a, {DECOM}) ELSE a
             wrap(a) ==
                 IF Ok(a) /\ savepoint.wrap THEN set_mode(a, {DECAWM})
                 ELSE a
         IN  wrap(origin([s EXCEPT
                             !.savepoints = SubSeq(@, 1, Len(@) - 1),
                             !.x = savepoint.cursor[1],
                             !.y = savepoint.cursor[2]]))
    ELSE LET home(a) == IF Ok(a) THEN cursor_position(a, 0, 0) ELSE a
         IN  home(reset_mode(s, {DECOM}))

reset(s) ==
    LET a == [s EXCEPT
                 !.display = <<>>,
                 !.attributes = <<>>,
                 !.buffer = <<>>,
                 !.mode = {DECAWM, DECTCEM, LNM},
                 !.margins = [top |-> 0, bottom |-> s.lines - 1],
                 !.cursor_attributes = default_attributes,
                 !.lines = 0,
                 !.columns = 0,
                 !.x = 0,
                 !.y = 0]
    IN  cursor_position(resize(a, s.lines, s.columns), 0, 0)

\* Screen(columns, lines)
Screen(columns, lines) ==
    reset([lines |-> lines, columns |-> columns,
           tabstops |-> {c \in 7..(columns - 1) : (c - 7) % 8 = 0},
           savepoints |-> <<>>,
           display |-> <<>>, attributes |-> <<>>, buffer |-> <<>>,
           mode |-> {}, margins |-> [top |-> 0, bottom |-> 0],
           cursor_attributes |-> default_attributes,
           x |-> 0, y |-> 0, raised |-> ""])

\* The first step of draw, with a linefeed whatever DECAWM is.
pending_wrap_always(a) == IF a.x = a.columns THEN linefeed(a) ELSE a

\* The first step of draw: the cursor behind the last column.
pending_wrap(a) ==
    IF a.x = a.columns
    THEN IF DECAWM \in a.mode THEN linefeed(a)
         ELSE [a EXCEPT !.x = @ - 1]
    ELSE a

draw(s, char) ==
    LET insert(a) ==
            IF Ok(a) /\ IRM \in a.mode THEN insert_characters(a, 1) ELSE a
        put(a) ==
            IF ~Ok(a) THEN a
            ELSE IF ~MatOK(a.display, a.y, a.x) THEN Raise(a, "IndexError")
            ELSE [a EXCEPT !.display = MatSet(a.display, a.y, a.x, char)]
        style(a) ==
            IF ~Ok(a) THEN a
            ELSE IF ~MatOK(a.attributes, a.y, a.x)
            THEN Raise(a, "IndexError")
            ELSE [a EXCEPT !.attributes =
                     MatSet(a.attributes, a.y, a.x, a.cursor_attributes)]
        advance(a) == IF Ok(a) THEN [a EXCEPT !.x = @ + 1] ELSE a
    IN  advance(style(put(insert(pending_wrap(s)))))

bell(s, args) == s

\* The inner loop of alignment_display on one line, column = from .. to - 1.
RECURSIVE alignment_columns(_, _, _, _)
alignment_columns(s, line, from, to) ==
    IF from >= to THEN s
    ELSE IF to = from + 1
    THEN IF ~MatOK(s.display, line, from) THEN Raise(s, "IndexError")
         ELSE [s EXCEPT !.display = MatSet(s.display, line, from, "E")]
    ELSE LET mid == from + ((to - from) \div 2)
             rest(a) ==
                 IF Ok(a) THEN alignment_columns(a, line, mid, to) ELSE a
         IN  rest(alignment_columns(s, line, from, mid))

RECURSIVE alignment_lines(_, _)
alignment_lines(s, line) ==
    IF line >= s.lines THEN s
    ELSE LET next(a) == IF Ok(a) THEN alignment_lines(a, line + 1) ELSE a
         IN  next(alignment_columns(s, line, 0, s.columns))

alignment_display(s) == alignment_lines(s, 0)

\* u"%s?%sc" % (ctrl.CSI, u";".join([u"62", u"1", u"6"]))
answer(s, args) ==
    IF Len(args) = 1
    THEN [s EXCEPT !.buffer =
             Append(@, <<CSI, "?", "6", "2", ";", "1", ";", "6", "c">>)]
    ELSE s

remove_text_attr(s, attr) ==
    IF Len(s.cursor_attributes) = 0 THEN Raise(s, "IndexError")
    ELSE LET cur == SetOf(s.cursor_attributes[1]) \ {attr}
         IN  [s EXCEPT !.cursor_attributes =
                 TupleOf(cur) \o SliceFrom(s.cursor_attributes, 1)]

add_text_attr(s, attr) ==
    IF Len(s.cursor_attributes) = 0 THEN Raise(s, "IndexError")
    ELSE LET cur == SetOf(s.cursor_attributes[1]) \cup {attr}
             attrs == SliceFrom(s.cursor_attributes, 1)
         IN  IF Len(attrs) < 2 THEN Raise(s, "IndexError")
             ELSE [s EXCEPT !.cursor_attributes =
                     <<Tup(cur), attrs[1], attrs[2]>>]

text_attr(s, attr_) ==
    LET attr == TEXT[attr_]
    IN  IF attr = "reset"
        THEN [s EXCEPT !.cursor_attributes = default_attributes]
        ELSE IF attr = "underline-off" THEN remove_text_attr(s, "underline")
        ELSE IF attr = "blink-off" THEN remove_text_attr(s, "blink")
        ELSE IF attr = "reverse-off" THEN remove_text_attr(s, "reverse")
        ELSE add_text_attr(s, attr)

color_attr(s, ground, attr_) ==
    LET attr == IF ground = "foreground" THEN FOREGROUND[attr_]
                ELSE BACKGROUND[attr_]
        attrs == s.cursor_attributes
    IN  IF Len(attrs) < 3 THEN Raise(s, "IndexError")
        ELSE IF ground = "foreground"
        THEN [s EXCEPT !.cursor_attributes =
                 <<attrs[1], Str(attr), attrs[3]>>]
        ELSE [s EXCEPT !.cursor_attributes =
                 <<attrs[1], attrs[2], Str(attr)>>]

set_attr(s, attr) ==
    IF attr \in DOMAIN TEXT THEN text_attr(s, attr)
    ELSE IF attr \in DOMAIN FOREGROUND THEN color_attr(s, "foreground", attr)
    ELSE IF attr \in DOMAIN BACKGROUND THEN color_attr(s, "background", attr)
    ELSE s

RECURSIVE select_graphic_rendition_loop(_, _)
select_graphic_rendition_loop(s, attrs) ==
    IF Len(attrs) = 0 THEN s
    ELSE LET next(a) ==
                 IF Ok(a) THEN select_graphic_rendition_loop(a, Tail(attrs))
                 ELSE a
         IN  next(set_attr(s, attrs[1]))

select_graphic_rendition(s, attrs) ==
    select_graphic_rendition_loop(s, IF Len(attrs) = 0 THEN <<0>> ELSE attrs)

(***************************************************************************)
(* Screen.attach: the events a Screen listens to, and the call of the      *)
(* method connected to an event with positional arguments `args`.  Python  *)
(* raises TypeError before the method runs when the arguments do not fit   *)
(* its signature; no method of Screen takes a keyword argument.            *)
(***************************************************************************)
NoArgEvents ==
    {"reset", "backspace", "tab", "linefeed", "carriage-return", "index",
     "reverse-index", "save-cursor", "restore-cursor", "set-tab-stop",
     "alignment-display"}

OneArgEvents ==
    {"cursor-up", "cursor-down", "cursor-forward", "cursor-back",
     "cursor-down1", "cursor-up1", "cursor-to-column", "cursor-to-line",
     "erase-in-line", "erase-in-display", "insert-lines", "delete-lines",
     "insert-characters", "delete-characters", "erase-characters",
     "clear-tab-stop"}

TwoArgEvents == {"cursor-position", "set-margins"}

VarArgEvents ==
    {"select-graphic-rendition", "bell", "set-mode", "reset-mode", "answer"}

attach ==
    NoArgEvents \cup {"draw"} \cup OneArgEvents \cup TwoArgEvents
    \cup VarArgEvents

Accepts(event, n) ==
    IF event \in NoArgEvents THEN n = 0
    ELSE IF event = "draw" THEN n = 1
    ELSE IF event \in OneArgEvents THEN n <= 1
    ELSE IF event \in TwoArgEvents THEN n <= 2
    ELSE TRUE

\* The i-th positional argument, 0 when absent (the methods read an absent
\* argument and 0 alike, through `or 1`, `not type_of` or a default of 0).
Arg(args, i) == IF Len(args) >= i THEN args[i] ELSE 0

Range(seq) == {seq[i] : i \in 1..Len(seq)}

handler(s, event, args) ==
    CASE event = "reset" -> reset(s)
      [] event = "draw" -> draw(s, args[1])
      [] event = "backspace" -> backspace(s)
      [] event = "tab" -> tab(s)
      [] event = "linefeed" -> linefeed(s)
      [] event = "carriage-return" -> carriage_return(s)
      [] event = "index" -> index(s)
      [] event = "reverse-index" -> reverse_index(s)
      [] event = "save-cursor" -> save_cursor(s)
      [] event = "restore-cursor" -> restore_cursor(s)
      [] event = "cursor-up" -> cursor_up(s, Arg(args, 1))
      [] event = "cursor-down" -> cursor_down(s, Arg(args, 1))
      [] event = "cursor-forward" -> cursor_forward(s, Arg(args, 1))
      [] event = "cursor-back" -> cursor_back(s, Arg(args, 1))
      [] event = "cursor-down1" -> cursor_down1(s, Arg(args, 1))
      [] event = "cursor-up1" -> cursor_up1(s, Arg(args, 1))
      [] event = "cursor-position" ->
            cursor_position(s, Arg(args, 1), Arg(args, 2))
      [] event = "cursor-to-column" -> cursor_to_column(s, Arg(args, 1))
      [] event = "cursor-to-line" -> cursor_to_line(s, Arg(args, 1))
      [] event = "erase-in-line" -> erase_in_line(s, Arg(args, 1))
      [] event = "erase-in-display" -> erase_in_display(s, Arg(args, 1))
      [] event = "insert-lines" -> insert_lines(s, Arg(args, 1))
      [] event = "delete-lines" -> delete_lines(s, Arg(args, 1))
      [] event = "insert-characters" -> insert_characters(s, Arg(args, 1))
      [] event = "delete-characters" -> delete_characters(s, Arg(args, 1))
      [] event = "erase-characters" -> erase_characters(s, Arg(args, 1))
      [] event = "select-graphic-rendition" ->
            select_graphic_rendition(s, args)
      [] event = "bell" -> bell(s, args)
      [] event = "set-tab-stop" -> set_tab_stop(s)
      [] event = "clear-tab-stop" -> clear_tab_stop(s, Arg(args, 1))
      [] event = "set-margins" -> set_margins(s, args)
      [] event = "set-mode" -> set_mode(s, Range(args))
      [] event = "reset-mode" -> reset_mode(s, Range(args))
      [] event = "alignment-display" -> alignment_display(s)
      [] event = "answer" -> answer(s, args)

(***************************************************************************)
(* streams.Stream.  The parser is the record m of its attributes, with    *)
(* the Screen it may drive (scr), the listener calls entered so far        *)
(* (calls) and the exception in flight (raised).  `ls` is the list of      *)
(* callbacks connected to every event, each named by its kind:             *)
(*   "accept"  takes any arguments and returns (the tests' argcheck);      *)
(*   "noargs"  a callable without parameters: TypeError on any argument;   *)
(*   "fails"   takes any arguments and raises RuntimeError;                *)
(*   "screen"  the methods Screen.attach connects.                         *)
(***************************************************************************)
Entered(m, i, event, args, kw) ==
    [m EXCEPT !.calls =
        Append(@, [listener |-> i, event |-> event, args |-> args,
                   flags |-> kw])]

\* callback(*args, **flags) for the i-th listener of the event
callback(m, kind, i, event, args, kw) ==
    IF kind = "accept" THEN Entered(m, i, event, args, kw)
    ELSE IF kind = "noargs"
    THEN IF Len(args) = 0 /\ kw = {} THEN Entered(m, i, event, args, kw)
         ELSE [m EXCEPT !.raised = "TypeError"]
    ELSE IF kind = "fails"
    THEN [Entered(m, i, event, args, kw) EXCEPT !.raised = "RuntimeError"]
    ELSE IF event \notin attach THEN m
    ELSE IF kw # {} \/ ~Accepts(event, Len(args))
    THEN [m EXCEPT !.raised = "TypeError"]
    ELSE LET returned(s) ==
                 [Entered(m, i, event, args, kw) EXCEPT
                     !.scr = s, !.raised = s.raised]
         IN  returned(handler([m.scr EXCEPT !.raised = ""], event, args))

RECURSIVE dispatch_loop(_, _, _, _, _, _)
dispatch_loop(m, ls, i, event, args, kw) ==
    IF i > Len(ls) THEN m
    ELSE LET next(r) ==
                 IF r.raised # "" THEN r
                 ELSE dispatch_loop(r, ls, i + 1, event, args, kw)
         IN  next(callback(m, ls[i], i, event, args, kw))

dispatch(m, ls, event, args, kw) == dispatch_loop(m, ls, 1, event, args, kw)

\* Stream.reset
stream_reset(m) ==
    [m EXCEPT !.state = "stream", !.flags = {}, !.params = <<>>,
              !.current = <<>>]

\* _stream with NUL and DEL drawn like any other code point.
_stream_draws_all(m, ls, char) ==
    IF char \in DOMAIN basic THEN dispatch(m, ls, basic[char], <<>>, {})
    ELSE IF char = ESC THEN [m EXCEPT !.state = "escape"]
    ELSE IF char = CSI THEN [m EXCEPT !.state = "arguments"]
    ELSE dispatch(m, ls, "draw", <<char>>, {})

_stream(m, ls, char) ==
    IF char \in DOMAIN basic THEN dispatch(m, ls, basic[char], <<>>, {})
    ELSE IF char = ESC THEN [m EXCEPT !.state = "escape"]
    ELSE IF char = CSI THEN [m EXCEPT !.state = "arguments"]
    ELSE IF char \notin {NUL, DEL} THEN dispatch(m, ls, "draw", <<char>>, {})
    ELSE m

_escape(m, ls, char) ==
    IF char = "#" THEN [m EXCEPT !.state = "sharp"]
    ELSE IF char = "[" THEN [m EXCEPT !.state = "arguments"]
    ELSE IF char \in DOMAIN escape
    THEN dispatch([m EXCEPT !.state = "stream"], ls, escape[char], <<>>, {})
    ELSE [m EXCEPT !.state = "stream"]

_sharp(m, ls, char) ==
    LET ground(d) == IF d.raised # "" THEN d ELSE [d EXCEPT !.state = "stream"]
    IN  ground(IF char \in DOMAIN sharp
               THEN dispatch(m, ls, sharp[char], <<>>, {})
               ELSE m)

\* The CAN / SUB branch of _arguments, with the state left in "arguments".
abort_stays(m, ls, char) == dispatch(m, ls, "draw", <<char>>, {})

\* The CAN / SUB branch of _arguments: draw the character, back to ground.
abort(m, ls, char) ==
    LET ground(d) ==
            IF d.raised # "" THEN d ELSE [d EXCEPT !.state = "stream"]
    IN  ground(dispatch(m, ls, "draw", <<char>>, {}))

\* The parameter appended without the limit of 9999.
push_param_unbounded(m) == [m EXCEPT !.params = Append(@, int(m.current))]

\* self.params.append(min(int(self.current or 0), 9999))
push_param(m) ==
    [m EXCEPT !.params = Append(@, Min(int(m.current), MaxParam))]

_arguments(m, ls, char) ==
    IF char = "?" THEN [m EXCEPT !.flags = @ \cup {"private"}]
    ELSE IF char \in {BEL, BS, HT, LF, CR} THEN m
    ELSE IF char \in {CAN, SUB} THEN abort(m, ls, char)
    ELSE IF isdigit(char) THEN [m EXCEPT !.current = Append(@, char)]
    ELSE IF ~IntDefined(m.current) THEN [m EXCEPT !.raised = "ValueError"]
    ELSE LET done(d) == IF d.raised # "" THEN d ELSE stream_reset(d)
             final(p) ==
                 IF char = ";" THEN [p EXCEPT !.current = <<>>]
                 ELSE IF char \in DOMAIN csi
                 THEN done(dispatch(p, ls, csi[char], p.params, p.flags))
                 ELSE done(dispatch(p, ls, "debug",
                                    <<<<CSI>> \o join(p.params)
                                      \o <<char>>>>, {}))
         IN  final(push_param(m))

\* Stream.consume: the handler of the current state; TypeError is swallowed.
consume(m, ls, char) ==
    LET m0 == [m EXCEPT !.raised = ""]
        except(r) ==
            IF r.raised = "TypeError" THEN [r EXCEPT !.raised = ""] ELSE r
    IN  except(CASE m.state = "stream" -> _stream(m0, ls, char)
                 [] m.state = "escape" -> _escape(m0, ls, char)
                 [] m.state = "arguments" -> _arguments(m0, ls, char)
                 [] m.state = "sharp" -> _sharp(m0, ls, char))

\* Stream.feed, for a caller that goes on after an exception
RECURSIVE feed(_, _, _)
feed(m, ls, chars) ==
    IF Len(chars) = 0 THEN m
    ELSE feed(consume(m, ls, chars[1]), ls, Tail(chars))

\* Stream(): the parser after construction, beside the Screen s
Stream(s) ==
    [state |-> "stream", flags |-> {}, params |-> <<>>, current |-> <<>>,
     scr |-> s, calls |-> <<>>, raised |-> ""]

(***************************************************************************)
(* The inputs of the model.                                                *)
(***************************************************************************)
\* Code points fed to a Stream on its own.  "x" is no final of any table.
StreamChars ==
    {ESC, CSI, "[", "#", "?", ";", "8", "9", "SUP2", BEL, CAN, "H", "x"}

\* Code points for the tables of the ground and escape states: every
\* control of `basic`, NUL and DEL, the introducers, every final of `escape`.
TableChars ==
    {NUL, BEL, BS, HT, LF, VT, FF, CR, SO, SI, DEL, ESC, CSI, "#", "[",
     "c", "D", "E", "H", "M", "7", "8", "9", "x"}

\* Code points fed to a Stream attached to a Screen.
TermChars == {CSI, "?", ";", "6", "7", "h", "l", "a"}

\* CSI 9999: the start of a parameter that the next digit takes over 9999.
Nines == <<CSI, "9", "9", "9", "9">>
Prefixes == {<<>>, Nines}

\* The listeners connected to every event of a Stream on its own.
Chains ==
    {<<"accept", "accept">>, <<"noargs", "accept">>, <<"fails", "accept">>}

\* Arguments of direct Screen calls.
DrawChars == {"a", "b"}
Counts == {0, 2, MaxParam}
Types == 0..3
Modes == {IRM, DECOM, DECAWM, DECCOLM, LNM}
SgrArgs == {<<>>, <<1>>, <<24>>, <<31>>, <<41>>, <<99>>}
MarginArgs ==
    {<<>>, <<1>>} \cup {<<t, b>> : t \in {0, 2}, b \in {0, 2, 3, MaxParam}}
Heights == 2..MaxLines
Widths == 2..MaxColumns

\* k characters drawn on a Screen
RECURSIVE drawn(_, _)
drawn(s, k) == IF k = 0 THEN s ELSE draw(drawn(s, k - 1), "a")

(***************************************************************************)
(* Initial states: a Stream with recording listeners; a Screen called      *)
(* directly; a Stream attached to a Screen.                                *)
(***************************************************************************)
Unfed ==
    /\ state = "stream"
    /\ params = <<>>
    /\ current = <<>>
    /\ flags = {}
    /\ fed = <<>>
    /\ calls = <<>>
    /\ exc = ""
    /\ nops = 0
    /\ last = [op |-> "init", args |-> <<>>]

InitStream ==
    /\ listeners \in Chains
    /\ scr = Screen(2, 2)
    /\ \E pre \in Prefixes :
          LET starts(m) ==
                  /\ state = m.state
                  /\ params = m.params
                  /\ current = m.current
                  /\ flags = m.flags
                  /\ calls = m.calls
                  /\ exc = m.raised
          IN  /\ starts(feed(Stream(scr), listeners, pre))
              /\ fed = pre
    /\ nops = 0
    /\ last = [op |-> "init", args |-> <<>>]

InitScreen ==
    /\ listeners = <<>>
    /\ \E columns \in Widths, lines \in Heights :
          \E k \in 0..columns : scr = drawn(Screen(columns, lines), k)
    /\ Unfed

\* The character drawn at line i, column j (1-based) of a painted Screen,
\* one for each cell.
Glyph ==
    <<<<"A", "B", "C", "D", "E">>, <<"F", "G", "H", "I", "J">>,
      <<"K", "L", "M", "N", "O">>, <<"P", "Q", "R", "S", "T">>,
      <<"U", "V", "W", "X", "Y">>>>

\* The style given to the cell at line i, column j of a painted Screen:
\* the foreground of its line and the background of its column.
GlyphStyle(i, j) == <<Tup({}), Str(FOREGROUND[30 + i]), Str(BACKGROUND[40 + j])>>

\* The Screen after cursor_position(i, j), select_graphic_rendition(30 + i,
\* 40 + j) and draw(Glyph[i][j]) for each of its cells, and
\* select_graphic_rendition(0): every cell with its own character and
\* style, the cursor behind the last cell, the default style selected.
painted(columns, lines) ==
    [Screen(columns, lines) EXCEPT
        !.display = [i \in 1..lines |-> [j \in 1..columns |-> Glyph[i][j]]],
        !.attributes =
            [i \in 1..lines |-> [j \in 1..columns |-> GlyphStyle(i, j)]],
        !.x = columns,
        !.y = lines - 1]

\* A painted Screen with margins set through set_margins (or left alone),
\* the default style selected and the cursor anywhere on the grid.
InitScroll ==
    /\ listeners = <<>>
    /\ \E columns \in Widths, lines \in Heights :
          \E top \in 0..lines, bottom \in 1..lines :
              \E line \in 1..lines, column \in 1..columns :
                  scr = cursor_position(
                            set_margins(painted(columns, lines),
                                        <<top, bottom>>),
                            line, column)
    /\ Unfed

\* A painted Screen with margins set through set_margins (or left alone),
\* DECOM set or not, DECAWM reset or not, and the cursor moved by
\* cursor_position.
InitSave ==
    /\ listeners = <<>>
    /\ \E columns \in Widths, lines \in Heights :
          \E top \in 0..lines, bottom \in 1..lines :
              \E on \in SUBSET {DECOM}, off \in SUBSET {DECAWM} :
                  \E line \in 1..lines, column \in 1..columns :
                      scr = cursor_position(
                                reset_mode(
                                    set_mode(
                                        set_margins(painted(columns, lines),
                                                    <<top, bottom>>),
                                        on),
                                    off),
                                line, column)
    /\ Unfed

\* A Screen with IRM set or not, DECAWM and LNM reset or not, and the
\* cursor at the start of any of its lines.
InitDraw ==
    /\ listeners = <<>>
    /\ \E columns \in Widths, lines \in Heights :
          \E on \in SUBSET {IRM}, off \in SUBSET {DECAWM, LNM} :
              \E line \in 1..lines :
                  scr = cursor_to_line(
                            reset_mode(
                                set_mode(Screen(columns, lines), on), off),
                            line)
    /\ Unfed

\* A Stream attached to a Screen whose margins were selected by
\* set_margins(top, bottom).
InitRegion ==
    /\ listeners = <<"screen">>
    /\ \E columns \in Widths, lines \in Heights :
          \E top \in 1..lines, bottom \in 1..lines :
              scr = set_margins(Screen(columns, lines), <<top, bottom>>)
    /\ Unfed

\* A new Screen of two lines, of any width up to MaxTabColumns.
InitTab ==
    /\ listeners = <<>>
    /\ \E columns \in 1..MaxTabColumns : scr = Screen(columns, 2)
    /\ Unfed

\* A new Screen.
InitStyle ==
    /\ listeners = <<>>
    /\ \E columns \in Widths, lines \in Heights :
          scr = Screen(columns, lines)
    /\ Unfed

\* A Screen constructed with any dimensions, zero and negative included.
InitConstruct ==
    /\ listeners = <<>>
    /\ \E columns \in -1..MaxColumns, lines \in -1..MaxLines :
          scr = Screen(columns, lines)
    /\ Unfed

InitTerm ==
    /\ listeners = <<"screen">>
    /\ \E columns \in Widths, lines \in Heights :
          scr = Screen(columns, lines)
    /\ Unfed

(***************************************************************************)
(* Steps.                                                                  *)
(***************************************************************************)
Machine ==
    [state |-> state, flags |-> flags, params |-> params,
     current |-> current, scr |-> scr, calls |-> calls, raised |-> ""]

PrefixLen ==
    IF Len(fed) >= Len(Nines) /\ SubSeq(fed, 1, Len(Nines)) = Nines
    THEN Len(Nines) ELSE 0

\* stream.consume(char)
Consume(char) ==
    /\ Len(fed) < MaxFeed + PrefixLen
    /\ LET becomes(r) ==
               /\ state' = r.state
               /\ params' = r.params
               /\ current' = r.current
               /\ flags' = r.flags
               /\ scr' = r.scr
               /\ calls' = r.calls
               /\ exc' = r.raised
       IN  becomes(consume(Machine, listeners, char))
    /\ fed' = Append(fed, char)
    /\ last' = [op |-> "consume", args |-> <<char>>]
    /\ UNCHANGED <<listeners, nops>>

ConsumeStream == \E char \in StreamChars : Consume(char)

ConsumeTerm == \E char \in TermChars : Consume(char)

ConsumeTable ==
    \E char \in TableChars : Len(fed) < MaxTable + PrefixLen /\ Consume(char)

ConsumeRegion ==
    \E char \in {ESC, CSI, "[", ";", "1", "2", "3", "r"} :
        Len(fed) < MaxRegion /\ Consume(char)

\* The Screen before a call: no exception in flight.
S0 == [scr EXCEPT !.raised = ""]

\* A call of a Screen method that leaves the Screen s.
Step(name, args, s) ==
    /\ scr' = s
    /\ exc' = s.raised
    /\ nops' = nops + 1
    /\ last' = [op |-> name, args |-> args]
    /\ UNCHANGED <<state, params, current, flags, listeners, fed, calls>>

\* A direct call of a Screen method that leaves the Screen s.
Call(name, args, s) == nops < MaxOps /\ Step(name, args, s)

Reset == Call("reset", <<>>, reset(S0))
Resize ==
    \E lines \in 0..MaxLines, columns \in 0..MaxColumns :
        Call("resize", <<lines, columns>>, resize(S0, lines, columns))
SetMargins == \E a \in MarginArgs : Call("set_margins", a, set_margins(S0, a))
SetMode == \E mo \in Modes : Call("set_mode", <<mo>>, set_mode(S0, {mo}))
ResetMode ==
    \E mo \in Modes : Call("reset_mode", <<mo>>, reset_mode(S0, {mo}))
Draw == \E char \in DrawChars : Call("draw", <<char>>, draw(S0, char))
CarriageReturn == Call("carriage_return", <<>>, carriage_return(S0))
Index == Call("index", <<>>, index(S0))
ReverseIndex == Call("reverse_index", <<>>, reverse_index(S0))
Linefeed == Call("linefeed", <<>>, linefeed(S0))
Tab == Call("tab", <<>>, tab(S0))
Backspace == Call("backspace", <<>>, backspace(S0))
SaveCursor == Call("save_cursor", <<>>, save_cursor(S0))
RestoreCursor == Call("restore_cursor", <<>>, restore_cursor(S0))
InsertLines ==
    \E n \in Counts : Call("insert_lines", <<n>>, insert_lines(S0, n))
DeleteLines ==
    \E n \in Counts : Call("delete_lines", <<n>>, delete_lines(S0, n))
InsertCharacters ==
    \E n \in Counts :
        Call("insert_characters", <<n>>, insert_characters(S0, n))
DeleteCharacters ==
    \E n \in Counts :
        Call("delete_characters", <<n>>, delete_characters(S0, n))
EraseCharacters ==
    \E n \in Counts : Call("erase_characters", <<n>>, erase_characters(S0, n))
EraseInLine ==
    \E ty \in Types : Call("erase_in_line", <<ty>>, erase_in_line(S0, ty))
EraseInDisplay ==
    \E ty \in Types :
        Call("erase_in_display", <<ty>>, erase_in_display(S0, ty))
SetTabStop == Call("set_tab_stop", <<>>, set_tab_stop(S0))
ClearTabStop ==
    \E ty \in {0, 3} : Call("clear_tab_stop", <<ty>>, clear_tab_stop(S0, ty))
CursorUp == \E n \in Counts : Call("cursor_up", <<n>>, cursor_up(S0, n))
CursorUp1 == \E n \in Counts : Call("cursor_up1", <<n>>, cursor_up1(S0, n))
CursorDown == \E n \in Counts : Call("cursor_down", <<n>>, cursor_down(S0, n))
CursorDown1 ==
    \E n \in Counts : Call("cursor_down1", <<n>>, cursor_down1(S0, n))
CursorBack == \E n \in Counts : Call("cursor_back", <<n>>, cursor_back(S0, n))
CursorForward ==
    \E n \in Counts : Call("cursor_forward", <<n>>, cursor_forward(S0, n))
CursorPosition ==
    \E line \in Counts, column \in Counts :
        Call("cursor_position", <<line, column>>,
             cursor_position(S0, line, column))
CursorToColumn ==
    \E n \in Counts : Call("cursor_to_column", <<n>>, cursor_to_column(S0, n))
CursorToLine ==
    \E n \in Counts : Call("cursor_to_line", <<n>>, cursor_to_line(S0, n))
Bell == Call("bell", <<>>, bell(S0, <<>>))
AlignmentDisplay == Call("alignment_display", <<>>, alignment_display(S0))
Answer == \E a \in {<<>>, <<0>>} : Call("answer", a, answer(S0, a))
SelectGraphicRendition ==
    \E a \in SgrArgs :
        Call("select_graphic_rendition", a, select_graphic_rendition(S0, a))

NextScreen ==
    \/ Reset \/ Resize \/ SetMargins \/ SetMode \/ ResetMode \/ Draw
    \/ CarriageReturn \/ Index \/ ReverseIndex \/ Linefeed \/ Tab
    \/ Backspace \/ SaveCursor \/ RestoreCursor \/ InsertLines
    \/ DeleteLines \/ InsertCharacters \/ DeleteCharacters
    \/ EraseCharacters \/ EraseInLine \/ EraseInDisplay \/ SetTabStop
    \/ ClearTabStop \/ CursorUp \/ CursorUp1 \/ CursorDown \/ CursorDown1
    \/ CursorBack \/ CursorForward \/ CursorPosition \/ CursorToColumn
    \/ CursorToLine \/ Bell \/ AlignmentDisplay \/ Answer
    \/ SelectGraphicRendition

\* Typing on a Screen: characters drawn and carriage returns.
Type ==
    \E char \in DrawChars :
        nops < MaxDraw /\ Step("draw", <<char>>, draw(S0, char))

Return ==
    nops < MaxDraw /\ Step("carriage_return", <<>>, carriage_return(S0))

NextDraw == Type \/ Return

\* Scrolling a Screen: the operations that move rows and cells.
ScrollIndex == nops < MaxScroll /\ Step("index", <<>>, index(S0))
ScrollReverseIndex ==
    nops < MaxScroll /\ Step("reverse_index", <<>>, reverse_index(S0))
ScrollInsertLines ==
    \E n \in Counts :
        nops < MaxScroll /\ Step("insert_lines", <<n>>, insert_lines(S0, n))
ScrollDeleteLines ==
    \E n \in Counts :
        nops < MaxScroll /\ Step("delete_lines", <<n>>, delete_lines(S0, n))
ScrollInsertCharacters ==
    \E n \in Counts :
        /\ nops < MaxScroll
        /\ Step("insert_characters", <<n>>, insert_characters(S0, n))

NextScroll ==
    \/ ScrollIndex \/ ScrollReverseIndex \/ ScrollInsertLines
    \/ ScrollDeleteLines \/ ScrollInsertCharacters

\* Saving and restoring the cursor, with the operations that change what
\* is saved in between.
SaveSave == nops < MaxSave /\ Step("save_cursor", <<>>, save_cursor(S0))
SaveRestore ==
    nops < MaxSave /\ Step("restore_cursor", <<>>, restore_cursor(S0))
SaveRendition ==
    \E a \in {<<1>>, <<31>>} :
        /\ nops < MaxSave
        /\ Step("select_graphic_rendition", a,
                select_graphic_rendition(S0, a))
SaveMove ==
    \E p \in {<<0, 0>>, <<2, 2>>} :
        /\ nops < MaxSave
        /\ Step("cursor_position", p, cursor_position(S0, p[1], p[2]))
SaveSetOrigin ==
    nops < MaxSave /\ Step("set_mode", <<DECOM>>, set_mode(S0, {DECOM}))
SaveResetOrigin ==
    nops < MaxSave /\ Step("reset_mode", <<DECOM>>, reset_mode(S0, {DECOM}))
SaveReset == nops < MaxSave /\ Step("reset", <<>>, reset(S0))

\* Positioning the cursor and selecting the margins; 0 stands for an
\* argument left out of cursor_position.
MoveCursorPosition ==
    \E line \in 0..(MaxLines + 1) \cup {MaxParam},
       column \in {0, 1, 2, MaxParam} :
        /\ nops < MaxMove
        /\ Step("cursor_position", <<line, column>>,
                cursor_position(S0, line, column))
MoveSetMargins ==
    \E a \in {<<>>, <<1>>, <<2>>}
              \cup ({0, 1, 2, MaxParam}
                    \X (0..(MaxLines + 1) \cup {MaxParam})) :
        nops < MaxMove /\ Step("set_margins", a, set_margins(S0, a))

\* Switching between 132 and 80 columns, and drawing in between.
WidthSet ==
    nops < MaxWidth /\ Step("set_mode", <<DECCOLM>>, set_mode(S0, {DECCOLM}))
WidthReset ==
    /\ nops < MaxWidth
    /\ Step("reset_mode", <<DECCOLM>>, reset_mode(S0, {DECCOLM}))
WidthDraw == nops < MaxWidth /\ Step("draw", <<"a">>, draw(S0, "a"))

NextWidth == WidthSet \/ WidthReset \/ WidthDraw

\* Erasing and filling the display, and drawing to move the cursor forward.
EraseDisplay ==
    \E type_of \in 0..2 :
        /\ nops < MaxErase
        /\ Step("erase_in_display", <<type_of>>,
                erase_in_display(S0, type_of))
EraseDraw == nops < MaxErase /\ Step("draw", <<"a">>, draw(S0, "a"))
EraseAlignment ==
    nops < MaxErase /\ Step("alignment_display", <<>>, alignment_display(S0))

NextErase == EraseDisplay \/ EraseDraw \/ EraseAlignment

\* Tabulation: tab, the tab stops set and cleared at the cursor, and the
\* cursor moved by cursor_to_column and draw.
TabTab == nops < MaxTab /\ Step("tab", <<>>, tab(S0))
TabSetStop == nops < MaxTab /\ Step("set_tab_stop", <<>>, set_tab_stop(S0))
TabClearStop ==
    \E type_of \in {0, 3} :
        /\ nops < MaxTab
        /\ Step("clear_tab_stop", <<type_of>>, clear_tab_stop(S0, type_of))
TabColumn ==
    \E column \in {2, 9} :
        /\ nops < MaxTab
        /\ Step("cursor_to_column", <<column>>, cursor_to_column(S0, column))
TabDraw == nops < MaxTab /\ Step("draw", <<"a">>, draw(S0, "a"))

NextTab == TabTab \/ TabSetStop \/ TabClearStop \/ TabColumn \/ TabDraw

\* Resizing; 0 stands for an argument left out.
ResizeTo ==
    \E lines \in 0..(MaxLines + 1), columns \in 0..(MaxColumns + 1) :
        /\ nops < MaxResize
        /\ Step("resize", <<lines, columns>>, resize(S0, lines, columns))

\* Selecting the rendition with no, one or two parameters, and drawing.
StyleSelect ==
    \E a \in {<<>>, <<1, 4>>, <<4, 31>>}
              \cup {<<c>> : c \in {0, 1, 3, 4, 5, 7, 9, 22, 23, 24, 25, 27,
                                   29, 31, 41, 99}} :
        /\ nops < MaxStyle
        /\ Step("select_graphic_rendition", a,
                select_graphic_rendition(S0, a))
StyleDraw == nops < MaxStyle /\ Step("draw", <<"a">>, draw(S0, "a"))

NextStyle == StyleSelect \/ StyleDraw

\* Moving along the line, after the cursor was saved and restored and
\* DECOM set.
HorizontalBackspace ==
    nops < MaxHorizontal /\ Step("backspace", <<>>, backspace(S0))
HorizontalReturn ==
    nops < MaxHorizontal
    /\ Step("carriage_return", <<>>, carriage_return(S0))
HorizontalTab == nops < MaxHorizontal /\ Step("tab", <<>>, tab(S0))
HorizontalBack ==
    \E count \in {0, 2} :
        /\ nops < MaxHorizontal
        /\ Step("cursor_back", <<count>>, cursor_back(S0, count))
HorizontalForward ==
    \E count \in {0, 2} :
        /\ nops < MaxHorizontal
        /\ Step("cursor_forward", <<count>>, cursor_forward(S0, count))
HorizontalColumn ==
    \E column \in {0, 2} :
        /\ nops < MaxHorizontal
        /\ Step("cursor_to_column", <<column>>,
                cursor_to_column(S0, column))

NextHorizontal ==
    \/ SaveSave \/ SaveRestore \/ SaveSetOrigin
    \/ HorizontalBackspace \/ HorizontalReturn \/ HorizontalTab
    \/ HorizontalBack \/ HorizontalForward \/ HorizontalColumn

NextMove == MoveCursorPosition \/ MoveSetMargins

NextSave ==
    \/ SaveSave \/ SaveRestore \/ SaveRendition \/ SaveMove
    \/ SaveSetOrigin \/ SaveResetOrigin \/ SaveReset

\* A Stream on its own, its listeners recording or raising.
SpecStream == InitStream /\ [][ConsumeStream]_vars

\* A Screen called directly.
SpecScreen == InitScreen /\ [][NextScreen]_vars

\* A Stream attached to a Screen.
SpecTerm == InitTerm /\ [][ConsumeTerm]_vars

\* A painted Screen scrolled.
SpecScroll == InitScroll /\ [][NextScroll]_vars

\* A Stream attached to a Screen with selected margins.
SpecRegion == InitRegion /\ [][ConsumeRegion]_vars

\* A painted Screen switched between 132 and 80 columns.
SpecWidth == InitSave /\ [][NextWidth]_vars

\* A painted Screen erased.
SpecErase == InitSave /\ [][NextErase]_vars

\* A new Screen tabulated on.
SpecTab == InitTab /\ [][NextTab]_vars

\* A painted Screen resized.
SpecResize == InitScroll /\ [][ResizeTo]_vars

\* A new Screen whose rendition is selected and drawn with.
SpecStyle == InitStyle /\ [][NextStyle]_vars

\* A Screen of any dimensions whose rendition is selected and drawn with.
SpecConstruct == InitConstruct /\ [][NextStyle]_vars

\* A painted Screen whose cursor is moved along the line.
SpecHorizontal == InitSave /\ [][NextHorizontal]_vars

\* A painted Screen whose cursor is positioned and margins selected.
SpecMove == InitSave /\ [][NextMove]_vars

\* A painted Screen whose cursor is saved and restored.
SpecSave == InitSave /\ [][NextSave]_vars

\* A Screen typed on.
SpecDraw == InitDraw /\ [][NextDraw]_vars

\* A Stream on its own, fed the code points of its tables.
SpecTable == InitStream /\ [][ConsumeTable]_vars

Init == InitScreen
Next == NextScreen
Spec == SpecScreen

(***************************************************************************)
(* Properties.                                                             *)
(***************************************************************************)
Accepting == <<"accept", "accept">>
States == {"stream", "escape", "sharp", "arguments"}
Consumed(char) == Len(fed) > 0 /\ fed[Len(fed)] = char

\* C1: the display has exactly `lines` rows, each of exactly `columns`
\* cells, after any sequence of Screen operations.
GridShape ==
    /\ Len(scr.display) = scr.lines
    /\ \A i \in 1..Len(scr.display) : Len(scr.display[i]) = scr.columns

\* C2: the cursor stays on the screen: 0 <= y < lines and 0 <= x <= columns.
CursorBounds ==
    /\ 0 <= scr.y /\ scr.y < scr.lines
    /\ 0 <= scr.x /\ scr.x <= scr.columns

\* C3: no operation of Screen ends with an exception.
NoScreenOperationRaises == scr.raised = ""

\* An unrecognised control sequence: CSI, parameters, a final of no table.
UnknownSequence ==
    /\ Len(fed) >= 2
    /\ fed[1] = CSI
    /\ fed[Len(fed)] = "x"
    /\ \A i \in 2..(Len(fed) - 1) : fed[i] \in DecimalDigits \cup {";"}

\* C4: with listeners that return, consume accepts every code point in
\* every state: nothing is raised, the state stays one of the four, and an
\* unrecognised control sequence ends with a `debug` event.
ParserTotal ==
    listeners = Accepting =>
        /\ exc = ""
        /\ state \in States
        /\ UnknownSequence =>
               /\ Len(calls) > 0
               /\ calls[Len(calls)].event = "debug"

\* C5: the margins are a region of at least two lines on the screen:
\* 0 <= top, bottom - top >= 1 and bottom < lines.
MarginsInvariant ==
    /\ 0 <= scr.margins.top
    /\ scr.margins.bottom - scr.margins.top >= 1
    /\ scr.margins.bottom < scr.lines

(* The parameters of a control sequence as its text gives them: the body  *)
(* without the control characters the parser tolerates, cut at each ";",  *)
(* every field read as a decimal number, an empty field as 0.             *)
Tolerated == {BEL, BS, HT, LF, CR}
Kept(char) == char \notin Tolerated

RECURSIVE Fields(_)
Fields(body) ==
    IF \A i \in 1..Len(body) : body[i] # ";" THEN <<body>>
    ELSE LET cut == CHOOSE i \in 1..Len(body) :
                       body[i] = ";" /\ \A j \in 1..(i - 1) : body[j] # ";"
         IN  <<SubSeq(body, 1, cut - 1)>>
             \o Fields(SubSeq(body, cut + 1, Len(body)))

RECURSIVE Power10(_)
Power10(n) == IF n = 0 THEN 1 ELSE 10 * Power10(n - 1)

RECURSIVE Decimal(_)
Decimal(field) ==
    IF Len(field) = 0 THEN 0
    ELSE DigitValue(Head(field)) * Power10(Len(field) - 1)
         + Decimal(Tail(field))

Expected(body) ==
    LET fields == Fields(SelectSeq(body, Kept))
    IN  [i \in 1..Len(fields) |->
            IF Decimal(fields[i]) > 9999 THEN 9999 ELSE Decimal(fields[i])]

\* The input so far is one control sequence: ESC [ or CSI, decimal fields
\* separated by ";" with tolerated controls among them, a final of the csi
\* table.
Body == SubSeq(fed, IF fed[1] = CSI THEN 2 ELSE 3, Len(fed) - 1)
ControlSequence ==
    /\ Len(fed) >= 2
    /\ fed[1] = CSI \/ (Len(fed) >= 3 /\ fed[1] = ESC /\ fed[2] = "[")
    /\ fed[Len(fed)] \in DOMAIN csi
    /\ \A i \in 1..Len(Body) :
           Body[i] \in DecimalDigits \cup {";"} \cup Tolerated

\* C6: a control sequence fed to a fresh Stream dispatches the mapped
\* event once (one call of each listener) with one integer per field,
\* min(value, 9999) and 0 for an empty field, and leaves the parser in
\* ground state with params, current and flags cleared.
CsiDispatch ==
    (listeners = Accepting /\ ControlSequence) =>
        /\ Len(calls) = Len(listeners)
        /\ \A i \in 1..Len(calls) :
               /\ calls[i].listener = i
               /\ calls[i].event = csi[fed[Len(fed)]]
               /\ calls[i].args = Expected(Body)
               /\ calls[i].flags = {}
        /\ state = "stream"
        /\ params = <<>>
        /\ current = <<>>
        /\ flags = {}

\* CSI 99999 BEL ; H has been fed: cursor-position(9999, 0) was dispatched.
CsiDispatchWitness ==
    /\ listeners = Accepting
    /\ fed = Nines \o <<"9", BEL, ";", "H">>
    /\ Len(calls) = 2
    /\ calls[1].event = "cursor-position"
    /\ calls[1].args = <<9999, 0>>
    /\ state = "stream"

\* The grid of a Screen nothing was drawn on.
BlankGrid ==
    \A i \in 1..Len(scr.display) :
        \A j \in 1..Len(scr.display[i]) : scr.display[i][j] = " "

PrivateMode(digit, mo) ==
    /\ fed = <<CSI, "?", digit, "h">> =>
           /\ mo \in scr.mode
           /\ Len(calls) = 1
           /\ calls[1].event = "set-mode"
           /\ calls[1].args = <<mo>>
           /\ calls[1].flags = {"private"}
           /\ state = "stream"
           /\ BlankGrid
    /\ fed = <<CSI, "?", digit, "l">> =>
           /\ mo \notin scr.mode
           /\ Len(calls) = 1
           /\ calls[1].event = "reset-mode"
           /\ calls[1].args = <<mo>>
           /\ calls[1].flags = {"private"}
           /\ state = "stream"
           /\ BlankGrid

\* C7: through a Stream attached to a Screen, CSI ? n h adds mode n to the
\* Screen and CSI ? n l removes it, the handler receiving n and the flag
\* private; afterwards the parser is in ground state and nothing was drawn.
PrivateModeSequences == PrivateMode("6", DECOM) /\ PrivateMode("7", DECAWM)

\* C8: consuming ESC puts the parser in the `escape` state, whatever the
\* state it was in.
EscRestarts == (Consumed(ESC) /\ exc = "") => state = "escape"

\* The calls that deliver draw(char) to every listener.
DrawCalls(char) ==
    [i \in 1..Len(listeners) |->
        [listener |-> i, event |-> "draw", args |-> <<char>>, flags |-> {}]]

\* C9: CAN or SUB consumed in the `arguments` state dispatches one draw
\* event carrying that character and nothing else, and the parser goes to
\* ground; the code points that follow it are ground input: one that is
\* neither a control nor an introducer is drawn.
CanSubAbort ==
    [][listeners = Accepting =>
          /\ \A char \in {CAN, SUB} :
                 (state = "arguments" /\ fed' = Append(fed, char)) =>
                     /\ state' = "stream"
                     /\ calls' = calls \o DrawCalls(char)
          /\ \A char \in DecimalDigits \cup DOMAIN csi :
                 ((Consumed(CAN) \/ Consumed(SUB)) /\ fed' = Append(fed, char))
                     => /\ state' = "stream"
                        /\ calls' = calls \o DrawCalls(char)]_vars

\* CSI 9 CAN H has been fed: CAN and H were drawn, nothing else dispatched.
CanSubAbortWitness ==
    /\ listeners = Accepting
    /\ fed = <<CSI, "9", CAN, "H">>
    /\ calls = DrawCalls(CAN) \o DrawCalls("H")
    /\ state = "stream"

\* The parser that received the same input with listeners that return.
Undisturbed == feed(Stream(scr), Accepting, fed)

\* C10: when a listener raises, the listeners connected after it are not
\* called for that event, and the parser is left as if the listener had
\* returned normally.
HandlerFailureContained ==
    /\ listeners[1] = "fails" => \A i \in 1..Len(calls) : calls[i].listener = 1
    /\ listeners[1] = "noargs" =>
           \A i \in 1..Len(calls) :
               calls[i].listener = 2 => Len(calls[i].args) = 0
    /\ state = Undisturbed.state
    /\ params = Undisturbed.params
    /\ current = Undisturbed.current
    /\ flags = Undisturbed.flags

\* The calls that deliver an event without arguments to every listener.
EventCalls(event) ==
    [i \in 1..Len(listeners) |->
        [listener |-> i, event |-> event, args |-> <<>>, flags |-> {}]]

\* The events the controls of the ground state are named after.
GroundEvent ==
    (BEL :> "bell") @@ (BS :> "backspace") @@ (HT :> "tab")
    @@ (CR :> "carriage-return") @@ (SO :> "shift-out") @@ (SI :> "shift-in")
    @@ (LF :> "linefeed") @@ (VT :> "linefeed") @@ (FF :> "linefeed")

\* The events of the finals of the escape state.
EscapeEvent ==
    ("c" :> "reset") @@ ("D" :> "index") @@ ("E" :> "linefeed")
    @@ ("H" :> "set-tab-stop") @@ ("M" :> "reverse-index")
    @@ ("7" :> "save-cursor") @@ ("8" :> "restore-cursor")

GroundStep(char) ==
    IF char \in DOMAIN GroundEvent
    THEN state' = "stream" /\ calls' = calls \o EventCalls(GroundEvent[char])
    ELSE IF char \in {NUL, DEL} THEN state' = "stream" /\ calls' = calls
    ELSE IF char = ESC THEN state' = "escape" /\ calls' = calls
    ELSE IF char = CSI THEN state' = "arguments" /\ calls' = calls
    ELSE state' = "stream" /\ calls' = calls \o DrawCalls(char)

EscapeStep(char) ==
    IF char \in DOMAIN EscapeEvent
    THEN state' = "stream" /\ calls' = calls \o EventCalls(EscapeEvent[char])
    ELSE IF char = "#" THEN state' = "sharp" /\ calls' = calls
    ELSE IF char = "[" THEN state' = "arguments" /\ calls' = calls
    ELSE state' = "stream" /\ calls' = calls

\* C11: the transition table of the ground and escape states: in ground a
\* control of the basic set dispatches its event once (LF, VT and FF all
\* linefeed), NUL and DEL dispatch nothing, ESC enters escape, CSI enters
\* arguments, any other code point is drawn; in escape a mapped final
\* dispatches its event once and returns to ground, "#" enters sharp, "["
\* enters arguments, anything else returns to ground dispatching nothing.
GroundEscapeTable ==
    [][listeners = Accepting =>
          \A char \in TableChars :
              fed' = Append(fed, char) =>
                  /\ state = "stream" => GroundStep(char)
                  /\ state = "escape" => EscapeStep(char)]_vars

\* ESC M has been fed: reverse-index was dispatched once, back in ground.
GroundEscapeTableWitness ==
    /\ listeners = Accepting
    /\ fed = <<ESC, "M">>
    /\ calls = EventCalls("reverse-index")
    /\ state = "stream"

\* The Screen is one the invariants of the grid, the cursor and the margins
\* describe, with a style for every cell.
WellFormed ==
    /\ GridShape
    /\ CursorBounds
    /\ MarginsInvariant
    /\ Len(scr.attributes) = scr.lines
    /\ \A i \in 1..Len(scr.attributes) :
           Len(scr.attributes[i]) = scr.columns

\* The step is a call of draw(char).
Drawing(char) ==
    nops' = nops + 1 /\ last'.op = "draw" /\ last'.args = <<char>>

\* The cell at column column_ of the cursor line holds char (0-based).
CellIs(s, column_, char) ==
    /\ s.y >= 0 /\ s.y < Len(s.display)
    /\ column_ >= 0 /\ column_ < Len(s.display[s.y + 1])
    /\ s.display[s.y + 1][column_ + 1] = char

\* C12: draw(c) in the pending-wrap position x == columns: with DECAWM set
\* a linefeed is performed, c is written at column 0 of the line the cursor
\* is then on and x ends at 1; with DECAWM reset c overwrites the last
\* column of the same line and x ends at columns; whatever LNM and IRM are.
PendingWrapRule ==
    [][\A char \in DrawChars :
          (WellFormed /\ scr.x = scr.columns /\ Drawing(char)) =>
              /\ scr'.raised = ""
              /\ IF DECAWM \in scr.mode
                 THEN /\ scr'.y = linefeed(S0).y
                      /\ scr'.x = 1
                      /\ CellIs(scr', 0, char)
                 ELSE /\ scr'.y = scr.y
                      /\ scr'.x = scr.columns
                      /\ CellIs(scr', scr.columns - 1, char)]_vars

\* The row of the cursor after a character was inserted at column x: the
\* cells before x stay, char is at x, the cells x..columns-2 follow it.
Inserted(row, x, char) ==
    [j \in 1..Len(row) |->
        IF j < x + 1 THEN row[j] ELSE IF j = x + 1 THEN char ELSE row[j - 1]]

\* C13: with IRM set and the cursor at (x, y), x < columns, draw(c) shifts
\* the cells x..columns-2 of row y one position to the right and writes c
\* at column x, on every row of every screen; with x == columns the wrap is
\* resolved first, so every row keeps the length `columns`.
InsertModeDraw ==
    [][\A char \in DrawChars :
          (WellFormed /\ IRM \in scr.mode /\ Drawing(char)) =>
              /\ scr.x < scr.columns =>
                     /\ scr'.raised = ""
                     /\ scr'.display[scr.y + 1]
                            = Inserted(scr.display[scr.y + 1], scr.x, char)
              /\ \A i \in 1..Len(scr'.display) :
                     Len(scr'.display[i]) = scr.columns]_vars

\* C14: with DECAWM reset, drawing characters on a row, however many,
\* changes no cell of any other row and does not scroll: every draw leaves
\* the cursor on its row and the other rows as they were.
NoWrapFrame ==
    [][\A char \in DrawChars :
          (WellFormed /\ DECAWM \notin scr.mode /\ Drawing(char)) =>
              /\ scr'.raised = ""
              /\ scr'.y = scr.y
              /\ Len(scr'.display) = Len(scr.display)
              /\ \A i \in 1..Len(scr.display) :
                     i # scr.y + 1 =>
                         /\ scr'.display[i] = scr.display[i]
                         /\ scr'.attributes[i] = scr.attributes[i]]_vars

\* Three characters drawn on the empty first row of a Screen of 2 columns
\* and 2 lines with DECAWM reset: the second row is still blank.
NoWrapFrameWitness ==
    /\ scr = draw(draw(draw(reset_mode(Screen(2, 2), {DECAWM}), "a"), "b"),
                  "a")
    /\ last.op = "draw"
    /\ nops = 3
    /\ scr.display = <<<<"a", "a">>, <<" ", " ">>>>

\* The step is a call of the Screen method op.
Calling(op) == nops' = nops + 1 /\ last'.op = op

\* The rows of the scrolling region are all blank.
RegionBlank ==
    \A i \in (scr.margins.top + 1)..(scr.margins.bottom + 1) :
        scr.display[i] = Blank(scr.columns)

\* C15: index with the cursor on the bottom margin of a well-formed Screen
\* moves the characters of the rows top+1..bottom up by one row, blanks the
\* row `bottom` and leaves the cursor where it was; once the region is
\* blank a further index changes no character.
IndexScrolls ==
    [][(WellFormed /\ scr.y = scr.margins.bottom /\ Calling("index")) =>
          /\ scr'.raised = ""
          /\ \A r \in (scr.margins.top + 1)..scr.margins.bottom :
                 scr'.display[r] = scr.display[r + 1]
          /\ scr'.display[scr.margins.bottom + 1] = Blank(scr.columns)
          /\ scr'.x = scr.x
          /\ scr'.y = scr.y
          /\ RegionBlank => scr'.display = scr.display]_vars

\* Three index calls on the bottom margin of the region of lines 2..3 of a
\* painted Screen of 3 lines: the region is blank, the third changed
\* nothing, the first line is as painted.
IndexScrollsWitness ==
    /\ scr = index(index(index(
                 cursor_position(set_margins(painted(2, 3), <<2, 3>>), 3, 1))))
    /\ nops = 3
    /\ last.op = "index"
    /\ scr.display = <<<<"A", "B">>, <<" ", " ">>, <<" ", " ">>>>

\* C16: index, reverse_index, insert_lines and delete_lines change no cell,
\* character or style, of a row above margins.top or below margins.bottom,
\* for margins set through set_margins, any cursor position and any count.
OutsideFrozen ==
    [][(WellFormed
          /\ \E op \in {"index", "reverse_index", "insert_lines",
                         "delete_lines"} : Calling(op)) =>
          /\ Len(scr'.display) = scr.lines
          /\ Len(scr'.attributes) = scr.lines
          /\ \A i \in 1..scr.lines :
                 (i - 1 < scr.margins.top \/ i - 1 > scr.margins.bottom) =>
                     /\ scr'.display[i] = scr.display[i]
                     /\ scr'.attributes[i] = scr.attributes[i]]_vars

\* delete_lines(9999) then insert_lines(2) with the cursor in the region of
\* lines 1..2 of a painted Screen of 3 lines: the third line is as painted.
OutsideFrozenWitness ==
    /\ scr = insert_lines(
                 delete_lines(
                     cursor_position(set_margins(painted(2, 3), <<1, 2>>),
                                     1, 1),
                     9999),
                 2)
    /\ nops = 2
    /\ last = [op |-> "insert_lines", args |-> <<2>>]
    /\ scr.display = <<<<" ", " ">>, <<" ", " ">>, <<"K", "L">>>>

\* The style a painted character was drawn with.
PaintedStyle(char) ==
    CHOOSE st \in {GlyphStyle(i, j) : i \in 1..Len(Glyph), j \in 1..Len(Glyph[1])} :
        \E i \in 1..Len(Glyph), j \in 1..Len(Glyph[1]) :
            Glyph[i][j] = char /\ st = GlyphStyle(i, j)

\* C17: styles travel with their characters: on a painted Screen moved by
\* index, reverse_index, insert_lines, delete_lines and insert_characters,
\* every cell that holds a painted character has the style the character
\* was drawn with, and every blank cell has the default style.
StylesTravel ==
    \A i \in 1..Len(scr.display) :
        \A j \in 1..Len(scr.display[i]) :
            scr.attributes[i][j] =
                IF scr.display[i][j] = " " THEN default_attributes
                ELSE PaintedStyle(scr.display[i][j])

\* The savepoint on top of the stack.
TopSavepoint == scr.savepoints[Len(scr.savepoints)]

\* C18: save_cursor / restore_cursor round trip: save_cursor records the
\* cursor position and whether DECOM and DECAWM are set, nothing else
\* touches the stack, and restore_cursor takes the last savepoint off the
\* stack and leaves the cursor at the recorded position, with DECOM and
\* DECAWM set if they were recorded as set.
SaveRestoreRoundTrip ==
    [][/\ Calling("save_cursor") =>
              scr'.savepoints =
                  Append(scr.savepoints,
                         [cursor |-> <<scr.x, scr.y>>,
                          origin |-> DECOM \in scr.mode,
                          wrap |-> DECAWM \in scr.mode])
       /\ (Len(scr.savepoints) > 0 /\ Calling("restore_cursor")) =>
              /\ scr'.savepoints =
                     SubSeq(scr.savepoints, 1, Len(scr.savepoints) - 1)
              /\ scr'.x = TopSavepoint.cursor[1]
              /\ scr'.y = TopSavepoint.cursor[2]
              /\ TopSavepoint.origin => DECOM \in scr'.mode
              /\ TopSavepoint.wrap => DECAWM \in scr'.mode
       /\ (~Calling("save_cursor") /\ ~Calling("restore_cursor")) =>
              scr'.savepoints = scr.savepoints]_vars

\* C19: save_cursor captures the SGR style: right after save_cursor, any
\* two select_graphic_rendition calls followed by restore_cursor
\* leave the cursor style that was current at save time.
SaveCapturesStyle ==
    last.op = "save_cursor" =>
        \A a \in {<<1>>, <<31>>}, b \in {<<1>>, <<41>>} :
            restore_cursor(
                select_graphic_rendition(
                    select_graphic_rendition(scr, a), b)).cursor_attributes
                = scr.cursor_attributes

\* C20: restore_cursor with nothing saved removes DECOM from the modes and
\* moves the cursor to (0, 0), whatever the cursor position, the margins
\* and the modes are; the grid is unchanged.
RestoreFromEmpty ==
    [][(Len(scr.savepoints) = 0 /\ Calling("restore_cursor")) =>
          /\ scr'.raised = ""
          /\ scr'.mode = scr.mode \ {DECOM}
          /\ scr'.x = 0
          /\ scr'.y = 0
          /\ scr'.display = scr.display
          /\ scr'.attributes = scr.attributes]_vars

\* restore_cursor, nothing saved, on a painted Screen of 3 lines with the
\* margins at lines 2..3, DECOM set and the cursor at (1, 2).
RestoreFromEmptyWitness ==
    /\ scr = restore_cursor(
                 cursor_position(
                     set_mode(set_margins(painted(2, 3), <<2, 3>>), {DECOM}),
                     2, 2))
    /\ nops = 1
    /\ last.op = "restore_cursor"
    /\ scr.x = 0
    /\ scr.y = 0
    /\ DECOM \notin scr.mode
    /\ scr.margins = [top |-> 1, bottom |-> 2]

\* C21: reset on a well-formed Screen leaves it equal, in every component,
\* to a freshly constructed Screen of the same size.
ResetIsFresh ==
    [][(WellFormed /\ Calling("reset")) =>
          scr' = Screen(scr.columns, scr.lines)]_vars

\* C22: a restore_cursor issued right after a reset behaves as a restore
\* with nothing saved: the cursor goes home, DECOM is reset and the
\* savepoint stack is empty, whatever was saved before the reset.
ResetEmptiesSavepoints ==
    [][(WellFormed /\ last.op = "reset" /\ Calling("restore_cursor")) =>
          /\ scr'.x = 0
          /\ scr'.y = 0
          /\ DECOM \notin scr'.mode
          /\ scr'.savepoints = <<>>
          /\ scr' = restore_cursor([scr EXCEPT !.savepoints = <<>>])]_vars

\* The value cursor_position uses for a parameter: 0 or absent is 1.
OrOne(n) == IF n = 0 THEN 1 ELSE n

\* C23: cursor_position(L, C) on a well-formed Screen, 0 or absent taken as
\* 1: with DECOM reset the cursor becomes (min(C-1, columns-1),
\* min(L-1, lines-1)); with DECOM set the target line is top + L - 1, the
\* cursor does not move when it lies outside [top, bottom] and otherwise
\* moves there with the column clamped; nothing but the cursor changes.
CursorPositionRule ==
    [][(WellFormed /\ Calling("cursor_position")) =>
          LET L == OrOne(last'.args[1])
              C == OrOne(last'.args[2])
              target == scr.margins.top + L - 1
          IN  /\ scr' = [scr EXCEPT !.x = scr'.x, !.y = scr'.y]
              /\ DECOM \notin scr.mode =>
                     /\ scr'.x = Min(C - 1, scr.columns - 1)
                     /\ scr'.y = Min(L - 1, scr.lines - 1)
              /\ (DECOM \in scr.mode /\ target > scr.margins.bottom) =>
                     /\ scr'.x = scr.x
                     /\ scr'.y = scr.y
              /\ (DECOM \in scr.mode /\ target <= scr.margins.bottom) =>
                     /\ scr'.x = Min(C - 1, scr.columns - 1)
                     /\ scr'.y = target]_vars

\* cursor_position(3, 1) with DECOM set and the margins at lines 2..3 of a
\* Screen of 3 lines: the target line 3 (0-based) is outside the margins
\* and the cursor stays in column 1.
CursorPositionRuleWitness ==
    /\ last.op = "cursor_position"
    /\ last.args = <<3, 1>>
    /\ DECOM \in scr.mode
    /\ scr.lines = 3
    /\ scr.margins = [top |-> 1, bottom |-> 2]
    /\ scr.x = 1
    /\ scr.y = 2

\* n - 1 clamped to the lines of the Screen.
ClampLine(n) == Max(0, Min(n - 1, scr.lines - 1))

EmptyDecstbmSelectsAll ==
    fed \in {<<CSI, "r">>, <<ESC, "[", "r">>} =>
        scr.margins = [top |-> 0, bottom |-> scr.lines - 1]

\* The Screen after a switch of a well-formed Screen to `columns` columns
\* that leaves the modes `mode`: every cell a default cell, lines
\* unchanged, the cursor at home (the top margin in origin mode, (0, 0)
\* otherwise).
Switched(columns, mode) ==
    [scr EXCEPT
        !.mode = mode,
        !.columns = columns,
        !.display = Repeat(Blank(columns), scr.lines),
        !.attributes = Repeat(Repeat(default_attributes, columns), scr.lines),
        !.x = 0,
        !.y = IF DECOM \in scr.mode THEN scr.margins.top ELSE 0]

\* C26: set_mode(DECCOLM) resizes a well-formed Screen to 132 columns and
\* reset_mode(DECCOLM) to 80 columns, lines unchanged; in both cases every
\* cell becomes a default cell and the cursor moves to home.
ColumnModeEffects ==
    [][/\ (WellFormed /\ Calling("set_mode")
            /\ last'.args = <<DECCOLM>>) =>
              scr' = Switched(132, scr.mode \cup {DECCOLM})
       /\ (WellFormed /\ Calling("reset_mode")
            /\ last'.args = <<DECCOLM>>) =>
              scr' = Switched(80, scr.mode \ {DECCOLM})]_vars

\* reset_mode(DECCOLM) after set_mode(DECCOLM) and a draw, in origin mode
\* with the top margin on the second line: 80 blank columns, the cursor
\* at the top margin.
ColumnModeEffectsWitness ==
    /\ last.op = "reset_mode"
    /\ last.args = <<DECCOLM>>
    /\ nops = 3
    /\ scr.columns = 80
    /\ scr.lines = 3
    /\ DECOM \in scr.mode
    /\ scr.margins.top = 1
    /\ scr.x = 0
    /\ scr.y = 1
    /\ scr.display = Repeat(Blank(80), 3)

\* The rows of characters after k blank rows are inserted at row y of the
\* region ending at row bottom (0-based).
RowsInserted(y, k, bottom) ==
    [i \in 1..scr.lines |->
        IF i - 1 < y \/ i - 1 > bottom THEN scr.display[i]
        ELSE IF i - 1 < y + k THEN Blank(scr.columns)
        ELSE scr.display[i - k]]

\* C27: insert_lines(n) on a well-formed Screen with the cursor on a line y
\* inside the margins: with k = min(max(n, 1), bottom - y + 1), rows
\* y..y+k-1 become blank, the previous rows y..bottom-k move down to
\* y+k..bottom, the rows pushed past the bottom margin are lost and x
\* becomes 0; with the cursor outside the margins nothing changes.
InsertLinesRule ==
    [][(WellFormed /\ Calling("insert_lines")) =>
          IF scr.margins.top <= scr.y /\ scr.y <= scr.margins.bottom
          THEN /\ scr'.display =
                      RowsInserted(scr.y,
                                   Min(Max(last'.args[1], 1),
                                       scr.margins.bottom - scr.y + 1),
                                   scr.margins.bottom)
               /\ scr'.x = 0
               /\ scr'.y = scr.y
               /\ scr'.raised = ""
          ELSE scr' = scr]_vars

\* insert_lines(0) with the cursor on the second line of a painted Screen
\* of 3 lines whose margins are lines 1..2: the second line is blank and
\* the former second line is lost, the third as painted.
InsertLinesRuleWitness ==
    /\ nops = 1
    /\ last.op = "insert_lines"
    /\ last.args = <<0>>
    /\ scr.margins = [top |-> 0, bottom |-> 1]
    /\ scr.y = 1
    /\ scr.x = 0
    /\ scr.display = <<<<"A", "B">>, <<" ", " ">>, <<"K", "L">>>>

\* The characters of the cursor row after k blanks are inserted at the
\* cursor.
CellsInserted(k) ==
    [j \in 1..scr.columns |->
        IF j - 1 < scr.x THEN scr.display[scr.y + 1][j]
        ELSE IF j - 1 < scr.x + k THEN " "
        ELSE scr.display[scr.y + 1][j - k]]

\* C28: insert_characters(n) on a well-formed Screen with the cursor at
\* (x, y), x < columns: with k = min(max(n, 1), columns - x), the
\* characters of cells x..x+k-1 of row y become blank, the previous cells
\* x..columns-k-1 move to x+k..columns-1, the cells left of x and all
\* other rows are unchanged and the cursor does not move, on every row y.
InsertCharactersRule ==
    [][(WellFormed /\ scr.x < scr.columns
          /\ Calling("insert_characters")) =>
          /\ scr'.raised = ""
          /\ scr'.display =
                 [scr.display EXCEPT ![scr.y + 1] =
                     CellsInserted(Min(Max(last'.args[1], 1),
                                       scr.columns - scr.x))]
          /\ scr'.x = scr.x
          /\ scr'.y = scr.y]_vars

\* The cell at line i, column j (0-based) is erased by
\* erase_in_display(type_of) with the cursor where it is.
Erased(type_of, i, j) ==
    \/ type_of = 0 /\ (i > scr.y \/ (i = scr.y /\ j >= scr.x))
    \/ type_of = 1 /\ (i < scr.y \/ (i = scr.y /\ j <= scr.x))
    \/ type_of = 2

\* C29: erase_in_display(t), t in {0, 1, 2}, on a well-formed Screen: t = 0
\* turns every cell at or after the cursor into a default cell, t = 1
\* every cell at or before the cursor, t = 2 every cell; all other cells
\* keep their character and style, and the cursor does not move.
EraseInDisplayRule ==
    [][(WellFormed /\ Calling("erase_in_display")) =>
          /\ scr'.raised = ""
          /\ scr'.x = scr.x
          /\ scr'.y = scr.y
          /\ \A i \in 0..(scr.lines - 1), j \in 0..(scr.columns - 1) :
                 IF Erased(last'.args[1], i, j)
                 THEN /\ scr'.display[i + 1][j + 1] = " "
                      /\ scr'.attributes[i + 1][j + 1] = default_attributes
                 ELSE /\ scr'.display[i + 1][j + 1]
                            = scr.display[i + 1][j + 1]
                      /\ scr'.attributes[i + 1][j + 1]
                            = scr.attributes[i + 1][j + 1]]_vars

\* erase_in_display(1) with the cursor in the middle of a painted Screen of
\* 3 lines and 3 columns: the cells up to the cursor are default cells,
\* the cell right of the cursor and the last line are as painted.
EraseInDisplayRuleWitness ==
    /\ nops = 1
    /\ last.op = "erase_in_display"
    /\ last.args = <<1>>
    /\ scr.x = 1
    /\ scr.y = 1
    /\ scr.display = <<<<" ", " ", " ">>, <<" ", " ", "H">>,
                       <<"K", "L", "M">>>>
    /\ scr.attributes[2][2] = default_attributes
    /\ scr.attributes[2][3] = GlyphStyle(2, 3)

\* The tab stops right of the cursor.
StopsAhead == {stop \in scr.tabstops : stop > scr.x}

\* C30: a new Screen has its tab stops at the columns 7, 15, 23, ... below
\* `columns`; tab sets x to the smallest tab stop strictly greater than x,
\* or to columns-1 if there is none, and leaves y, the grid and everything
\* else unchanged; so tab at columns-1 with no stop beyond stays there.
TabRule ==
    [][/\ nops = 0 =>
              scr.tabstops = {c \in 0..(scr.columns - 1) : c % 8 = 7}
       /\ Calling("tab") =>
              /\ scr' = [scr EXCEPT !.x = scr'.x]
              /\ StopsAhead # {} =>
                     /\ scr'.x \in StopsAhead
                     /\ \A stop \in StopsAhead : scr'.x <= stop
              /\ StopsAhead = {} => scr'.x = scr.columns - 1
              /\ (StopsAhead = {} /\ scr.x = scr.columns - 1) =>
                     scr'.x = scr.x]_vars

\* The fourth tab on a new Screen of 18 columns: the cursor went through
\* the stops 7 and 15 to the last column and stays there.
TabRuleWitness ==
    /\ nops = 4
    /\ last.op = "tab"
    /\ scr.columns = 18
    /\ scr.tabstops = {7, 15}
    /\ scr.x = 17
    /\ scr.y = 0

\* The row of the grid that row i (1-based) of a grid resized to L lines
\* comes from: the topmost rows go when L is smaller.
SourceRow(i, L) == IF L < scr.lines THEN i + scr.lines - L ELSE i

\* The grid of characters and the grid of styles have `lines` rows of
\* `columns` cells.
Rectangular ==
    /\ GridShape
    /\ Len(scr.attributes) = scr.lines
    /\ \A i \in 1..Len(scr.attributes) :
           Len(scr.attributes[i]) = scr.columns

\* C31: resize(L, C) on a rectangular Screen, 0 or absent keeping the
\* size, yields a grid of exactly L rows of C cells: rows are appended at
\* the bottom or removed from the top, cells appended at the right or
\* removed from the right of every row; an appended cell is a default cell
\* and a surviving cell keeps its character and style.
ResizeRule ==
    [][(Rectangular /\ Calling("resize")) =>
          LET L == IF last'.args[1] = 0 THEN scr.lines ELSE last'.args[1]
              C == IF last'.args[2] = 0 THEN scr.columns ELSE last'.args[2]
          IN  /\ scr'.raised = ""
              /\ scr'.lines = L
              /\ scr'.columns = C
              /\ Len(scr'.display) = L
              /\ Len(scr'.attributes) = L
              /\ \A i \in 1..L :
                     /\ Len(scr'.display[i]) = C
                     /\ Len(scr'.attributes[i]) = C
                     /\ \A j \in 1..C :
                            IF SourceRow(i, L) <= scr.lines
                               /\ j <= scr.columns
                            THEN /\ scr'.display[i][j]
                                       = scr.display[SourceRow(i, L)][j]
                                 /\ scr'.attributes[i][j]
                                       = scr.attributes[SourceRow(i, L)][j]
                            ELSE /\ scr'.display[i][j] = " "
                                 /\ scr'.attributes[i][j]
                                       = default_attributes]_vars

\* resize(2, 4) of a painted Screen of 3 lines and 3 columns: the first
\* line is gone and every line has a default cell at its right.
ResizeRuleWitness ==
    /\ nops = 1
    /\ last.op = "resize"
    /\ last.args = <<2, 4>>
    /\ scr.display = <<<<"F", "G", "H", " ">>, <<"K", "L", "M", " ">>>>
    /\ scr.attributes[1][3] = GlyphStyle(2, 3)
    /\ scr.attributes[1][4] = default_attributes

\* The flag names and the palette names.
FlagNames ==
    {"bold", "italics", "underscore", "blink", "reverse", "strikethrough"}
PaletteNames ==
    {"black", "red", "green", "brown", "blue", "magenta", "cyan", "white",
     "default"}

\* The flag an SGR code adds, and the flag an SGR code removes.
FlagOn ==
    (1 :> "bold") @@ (3 :> "italics") @@ (4 :> "underscore")
    @@ (5 :> "blink") @@ (7 :> "reverse") @@ (9 :> "strikethrough")
FlagOff ==
    (22 :> "bold") @@ (23 :> "italics") @@ (24 :> "underscore")
    @@ (25 :> "blink") @@ (27 :> "reverse") @@ (29 :> "strikethrough")

\* A (text, fg, bg) triple: a collection of flag names and two palette
\* names.
IsStyle(style) ==
    /\ Len(style) = 3
    /\ style[1].k = "tuple"
    /\ style[1].v \subseteq FlagNames \cup {"dim", "underline"}
    /\ style[2].k = "str"
    /\ style[2].v \subseteq PaletteNames
    /\ style[3].k = "str"
    /\ style[3].v \subseteq PaletteNames

\* The style after the SGR codes attrs are processed in order, none of
\* them a colour code.
RECURSIVE Rendered(_, _)
Rendered(style, attrs) ==
    IF Len(attrs) = 0 THEN style
    ELSE LET c == attrs[1]
             next ==
                 IF c = 0 THEN default_attributes
                 ELSE IF c \in DOMAIN FlagOn
                 THEN <<Tup(style[1].v \cup {FlagOn[c]}), style[2], style[3]>>
                 ELSE IF c \in DOMAIN FlagOff
                 THEN <<Tup(style[1].v \ {FlagOff[c]}), style[2], style[3]>>
                 ELSE style
         IN  Rendered(next, Tail(attrs))

\* C32: select_graphic_rendition processes its parameters in order: 1, 3,
\* 4, 5, 7, 9 add bold, italics, underscore, blink, reverse, strikethrough
\* to the cursor style, 22, 23, 24, 25, 27, 29 remove the corresponding
\* flag, 0 or no parameter resets the style to default, an unknown code
\* leaves the style unchanged, and no flag code changes the colours.
SgrFlagMapping ==
    [][(/\ IsStyle(scr.cursor_attributes)
        /\ Calling("select_graphic_rendition")
        /\ \A i \in 1..Len(last'.args) : last'.args[i] \notin 30..49) =>
          /\ scr'.raised = ""
          /\ scr'.cursor_attributes =
                 Rendered(scr.cursor_attributes,
                          IF Len(last'.args) = 0 THEN <<0>>
                          ELSE last'.args)]_vars

\* C33: alignment_display on a rectangular Screen turns every cell of the
\* grid into the character E with the default style, whatever the content
\* and the styles were; the cursor is unchanged.
AlignmentFills ==
    [][(Rectangular /\ Calling("alignment_display")) =>
          /\ scr'.raised = ""
          /\ scr'.display = Repeat(Repeat("E", scr.columns), scr.lines)
          /\ scr'.attributes =
                 Repeat(Repeat(default_attributes, scr.columns), scr.lines)
          /\ scr'.x = scr.x
          /\ scr'.y = scr.y]_vars

\* The reply to the primary DA request: CSI ?62;1;6c.
PrimaryDA == <<CSI, "?", "6", "2", ";", "1", ";", "6", "c">>

\* C34: after answer is called with no argument, the last element of the
\* reply buffer is CSI ?62;1;6c, and the grid and the cursor are unchanged.
AnswerReplies ==
    [][(Calling("answer") /\ Len(last'.args) = 0) =>
          /\ scr'.raised = ""
          /\ Len(scr'.buffer) > 0
          /\ scr'.buffer[Len(scr'.buffer)] = PrimaryDA
          /\ scr'.display = scr.display
          /\ scr'.attributes = scr.attributes
          /\ scr'.x = scr.x
          /\ scr'.y = scr.y]_vars

\* C35: constructing a Screen with a zero or negative number of lines or
\* columns fails: no Screen with such a dimension comes out of the
\* constructor.
ConstructionFails ==
    (nops = 0 /\ (scr.lines <= 0 \/ scr.columns <= 0)) => scr.raised # ""

\* C36: index on a well-formed Screen with the cursor not on the bottom
\* margin moves the cursor down one line in the same column: y becomes
\* min(y + 1, lines - 1), x is unchanged and no cell changes, wherever the
\* cursor is, below the bottom margin and in the pending-wrap column
\* included.
IndexMovesDown ==
    [][(WellFormed /\ scr.y # scr.margins.bottom /\ Calling("index")) =>
          /\ scr'.raised = ""
          /\ scr'.y = Min(scr.y + 1, scr.lines - 1)
          /\ scr'.x = scr.x
          /\ scr'.display = scr.display
          /\ scr'.attributes = scr.attributes]_vars

\* C37: whenever the parser is in the ground state, with no exception
\* raised, params is empty, current is empty and no flag is set, also
\* after a sequence aborted by CAN or SUB.
CleanGround ==
    (state = "stream" /\ exc = "") =>
        /\ params = <<>>
        /\ current = <<>>
        /\ flags = {}

\* C38: whenever DECOM is in the mode set of a Screen, the cursor line is
\* inside the margins: margins.top <= y <= margins.bottom.
OriginConfined ==
    DECOM \in scr.mode =>
        scr.margins.top <= scr.y /\ scr.y <= scr.margins.bottom

\* C39: backspace, carriage_return, tab, cursor_back, cursor_forward and
\* cursor_to_column on a well-formed Screen leave y, the grid, the mode set
\* and the margins unchanged, also when DECOM is set.
HorizontalOnlyX ==
    [][(WellFormed
          /\ \E op \in {"backspace", "carriage_return", "tab", "cursor_back",
                         "cursor_forward", "cursor_to_column"} :
                 Calling(op)) =>
          /\ scr'.raised = ""
          /\ scr'.y = scr.y
          /\ scr'.display = scr.display
          /\ scr'.attributes = scr.attributes
          /\ scr'.mode = scr.mode
          /\ scr'.margins = scr.margins]_vars

\* C40: after any sequence of select_graphic_rendition calls the cursor
\* style is a (text, fg, bg) triple whose text is a collection of flag
\* names and whose fg and bg are palette names, and the cell drawn last
\* has exactly that triple.
CursorStyleWellFormed ==
    /\ IsStyle(scr.cursor_attributes)
    /\ (last.op = "draw" /\ scr.raised = "" /\ Rectangular
        /\ 0 < scr.x /\ scr.x <= scr.columns
        /\ 0 <= scr.y /\ scr.y < scr.lines) =>
           scr.attributes[scr.y + 1][scr.x] = scr.cursor_attributes
====
